---- MODULE Spec2Model ----
(***************************************************************************)
(* Model of the T4 backend: the radar scoring engine                       *)
(* (modules/radar_engine.py), the indicator engine                         *)
(* (modules/indicator_engine.py) and the pipeline glue of main.py.         *)
(*                                                                         *)
(* Numbers.  A Python float is a fixed-point integer counting 1/U, so the  *)
(* float 0.08 is 24 and 50.0 is 50*U.  The product of two floats counts    *)
(* 1/(U*U); adj_score is kept in that unit.  Input grids are chosen so     *)
(* that every division the scoring code performs is exact; the quotients   *)
(* of the indicator engine are rounded down to a multiple of 1/U.          *)
(*                                                                         *)
(* Values.  A Python value is a record tagged by t: None, a number, a NaN  *)
(* float, a str (a tuple of ASCII codes) or a date object.  A dict is a    *)
(* function whose domain is the set of keys present.                       *)
(***************************************************************************)
EXTENDS Integers, Sequences, FiniteSets, TLC

U == 3 * 100

MaxRows == 3

\* ------------------------------------------------------------------------
\* Python values
\* ------------------------------------------------------------------------
None == [t |-> "none"]
NaN == [t |-> "nan"]
Num(x) == [t |-> "num", v |-> x]
Str(s) == [t |-> "str", s |-> s]
DateObj(n) == [t |-> "date", d |-> n]
Bool(b) == [t |-> "bool", b |-> b]

\* dict.get(key) and dict.get(key, default)
GetD(row, key, default) == IF key \in DOMAIN row THEN row[key] ELSE default
Get(row, key) == GetD(row, key, None)

\* truth value of a Python object, as used by "or" and "not"
Truthy(x) ==
  CASE x.t = "none" -> FALSE
    [] x.t = "str"  -> x.s # <<>>
    [] x.t = "num"  -> x.v # 0
    [] x.t = "bool" -> x.b
    [] OTHER        -> TRUE

PyOr(a, b) == IF Truthy(a) THEN a ELSE b

Min2(a, b) == IF a < b THEN a ELSE b
Max2(a, b) == IF a > b THEN a ELSE b

\* The floats that are not finite: float("inf"), float("-inf"); NaN above
PInf == [t |-> "inf", sign |-> 1]
NInf == [t |-> "inf", sign |-> -1]

\* a < b on Python floats: every comparison with NaN is false
FLess(a, b) ==
  IF a.t = "nan" \/ b.t = "nan" THEN FALSE
  ELSE IF a.t = "num" /\ b.t = "num" THEN a.v < b.v
  ELSE IF a.t = "inf" /\ b.t = "inf" THEN a.sign < b.sign
  ELSE IF a.t = "inf" THEN a.sign < 0
  ELSE b.sign > 0

\* a <= b on Python floats
FLessEq(a, b) == IF a.t = "nan" \/ b.t = "nan" THEN FALSE ELSE ~FLess(b, a)

\* a + b on Python floats
FAdd(a, b) ==
  IF a.t = "nan" \/ b.t = "nan" THEN NaN
  ELSE IF a.t = "num" /\ b.t = "num" THEN Num(a.v + b.v)
  ELSE IF a.t = "inf" /\ b.t = "inf" THEN (IF a.sign = b.sign THEN a ELSE NaN)
  ELSE IF a.t = "inf" THEN a
  ELSE b

\* k * a on Python floats, k a positive constant
FScale(k, a) == IF a.t = "num" THEN Num(k * a.v) ELSE a

\* the builtins min(a, b) and max(a, b): the first argument unless the second
\* is smaller (larger)
PyMin(a, b) == IF FLess(b, a) THEN b ELSE a
PyMax(a, b) == IF FLess(a, b) THEN b ELSE a

\* ------------------------------------------------------------------------
\* Strings (tuples of ASCII codes)
\* ------------------------------------------------------------------------
S_GREEN == <<71, 82, 69, 69, 78>>
S_YELLOW == <<89, 69, 76, 76, 79, 87>>
S_RED == <<82, 69, 68>>
S_DEFAULT == <<68, 69, 70, 65, 85, 76, 84>>

\* a > b on Python str: lexicographic by code point, a proper prefix is smaller
RECURSIVE StrGT(_, _)
StrGT(a, b) ==
  IF a = <<>> THEN FALSE
  ELSE IF b = <<>> THEN TRUE
  ELSE IF Head(a) # Head(b) THEN Head(a) > Head(b)
  ELSE StrGT(Tail(a), Tail(b))

\* str.upper() on ASCII
Upper(s) == [i \in 1..Len(s) |-> IF s[i] \in 97..122 THEN s[i] - 32 ELSE s[i]]

\* str.strip(): blanks removed at both ends
RECURSIVE LStrip(_)
LStrip(s) == IF s # <<>> /\ Head(s) = 32 THEN LStrip(Tail(s)) ELSE s
RECURSIVE RStrip(_)
RStrip(s) ==
  IF s # <<>> /\ s[Len(s)] = 32 THEN RStrip(SubSeq(s, 1, Len(s) - 1)) ELSE s
Strip(s) == RStrip(LStrip(s))

\* str.replace(",", ".")
CommaToDot(s) == [i \in 1..Len(s) |-> IF s[i] = 44 THEN 46 ELSE s[i]]

TwoDigits(n) == <<48 + (n \div 10), 48 + (n % 10)>>

\* strftime("%Y-%m-%d") of the day n days after 31 December 2024, for the
\* days of December 2024, January 2025 and February 2025
Strftime(n) ==
  IF n <= 0 THEN <<50, 48, 50, 52, 45, 49, 50, 45>> \o TwoDigits(31 + n)
  ELSE IF n <= 31 THEN <<50, 48, 50, 53, 45, 48, 49, 45>> \o TwoDigits(n)
  ELSE <<50, 48, 50, 53, 45, 48, 50, 45>> \o TwoDigits(n - 31)

RECURSIVE Pow10(_)
Pow10(k) == IF k = 0 THEN 1 ELSE 10 * Pow10(k - 1)

RECURSIVE DigitsValue(_)
DigitsValue(s) ==
  IF s = <<>> THEN 0 ELSE 10 * DigitsValue(SubSeq(s, 1, Len(s) - 1)) + (s[Len(s)] - 48)

\* the text is decimal digits with at most one point and at least one digit
IsDecimal(body) ==
  /\ \A i \in 1..Len(body) : body[i] = 46 \/ body[i] \in 48..57
  /\ \E i \in 1..Len(body) : body[i] \in 48..57
  /\ \A i, j \in 1..Len(body) : (body[i] = 46 /\ body[j] = 46) => i = j

\* the digits before the point
RECURSIVE IntPart(_)
IntPart(body) ==
  IF body = <<>> \/ Head(body) = 46 THEN <<>> ELSE <<Head(body)>> \o IntPart(Tail(body))

\* the digits behind the point
RECURSIVE FracPart(_)
FracPart(body) ==
  IF body = <<>> THEN <<>>
  ELSE IF Head(body) = 46 THEN Tail(body) ELSE FracPart(Tail(body))

DecimalValue(ip, fp) == (DigitsValue(ip \o fp) * U) \div Pow10(Len(fp))

S_NAN == <<78, 65, 78>>
S_INF == <<73, 78, 70>>
S_INFINITY == <<73, 78, 70, 73, 78, 73, 84, 89>>

\* float() reads "nan", "inf" and "infinity" in any case, behind any sign
PyFloatUnsigned(body, sign) ==
  IF IsDecimal(body) THEN Num(sign * DecimalValue(IntPart(body), FracPart(body)))
  ELSE IF Upper(body) = S_NAN THEN NaN
  ELSE IF Upper(body) \in {S_INF, S_INFINITY} THEN [t |-> "inf", sign |-> sign]
  ELSE None

PyFloatStripped(s) ==
  IF s # <<>> /\ Head(s) \in {43, 45}
  THEN PyFloatUnsigned(Tail(s), IF Head(s) = 45 THEN -1 ELSE 1)
  ELSE PyFloatUnsigned(s, 1)

\* float(str): blanks stripped, optional sign, then decimal digits with at
\* most one point, or one of the words for the floats that are not finite.
\* None stands for the ValueError float() raises.  (Exponents and digit
\* separators do not occur in the texts of this model.)
PyFloatStr(s0) == PyFloatStripped(Strip(s0))

\* float(x) of the builtin; None stands for the exception it raises
PyFloat(x) ==
  CASE x.t = "num"  -> x
    [] x.t = "nan"  -> x
    [] x.t = "inf"  -> x
    [] x.t = "bool" -> Num(IF x.b THEN U ELSE 0)
    [] x.t = "str"  -> PyFloatStr(x.s)
    [] OTHER        -> None

\* ------------------------------------------------------------------------
\* modules/radar_engine.py
\* ------------------------------------------------------------------------
_normalize_date_str_of_any(d) ==
  CASE d.t = "date" -> Strftime(d.d)
    [] d.t = "str"  -> SubSeq(d.s, 1, Min2(10, Len(d.s)))
    [] d.t = "none" -> <<78, 111, 110, 101>>
    [] OTHER        -> <<>>

\* lines 7-18
_normalize_date_to_str(d) ==
  CASE d.t = "date" -> Strftime(d.d)
    [] d.t = "str"  -> SubSeq(d.s, 1, Min2(10, Len(d.s)))
    [] OTHER        -> <<>>

PercentOf_unscaled(f) == f

\* lines 40-42: the value of a percent text, or None
PercentOf(f) == IF f.t = "num" THEN Num(f.v \div 100) ELSE f

\* lines 34-46, s stripped
ToFloatStripped(s) ==
  IF s = <<>> THEN None
  ELSE IF s[Len(s)] = 37
       THEN PercentOf(PyFloatStr(CommaToDot(SubSeq(s, 1, Len(s) - 1))))
       ELSE PyFloatStr(CommaToDot(s))

\* lines 21-46
_to_float(x) ==
  CASE x.t = "none" -> None
    [] x.t = "nan"  -> None
    [] x.t = "num"  -> x
    [] x.t = "inf"  -> x
    [] x.t = "bool" -> Num(IF x.b THEN U ELSE 0)
    [] x.t = "str"  -> ToFloatStripped(Strip(x.s))
    [] OTHER        -> None

\* lines 49-50
_clamp(x, min_val, max_val) == Max2(min_val, Min2(max_val, x))

\* lines 49-50 on a float that may not be finite; the bounds are finite
clamp_float(x, min_val, max_val) == PyMax(Num(min_val), PyMin(Num(max_val), x)).v

LiqMinDefault == 1000000 * U

\* lines 116-119: the except branch
OrLiqMinDefault(f) == IF f = None THEN Num(LiqMinDefault) ELSE f

\* lines 114-119
liq_min_of(config) ==
  OrLiqMinDefault(PyFloat(GetD(config, "RADAR_LIQ_MIN", Num(LiqMinDefault))))

macro_trend_up_plain(macro_trend) ==
  IF macro_trend.t = "str" THEN Upper(macro_trend.s) ELSE <<78, 79, 78, 69>>

\* line 122
macro_trend_up_of(macro_trend) == Upper(PyOr(macro_trend, Str(S_YELLOW)).s)

\* lines 123-128
macro_mult_of(macro_trend, macro_mults) ==
  GetD(macro_mults, macro_trend_up_of(macro_trend),
       GetD(macro_mults, S_DEFAULT, 1 * U))

\* lines 134-137 with the earliest date winning
later_of_min(latest, d_str) ==
  IF d_str = <<>> THEN latest
  ELSE IF latest = <<>> \/ StrGT(latest, d_str) THEN d_str ELSE latest

\* lines 134-137: the body of the loop
later_of(latest, d_str) ==
  IF d_str = <<>> THEN latest
  ELSE IF latest = <<>> \/ StrGT(d_str, latest) THEN d_str ELSE latest

\* lines 131-137
RECURSIVE latest_str_of(_, _)
latest_str_of(rows, latest) ==
  IF rows = <<>> THEN latest
  ELSE latest_str_of(Tail(rows),
                     later_of(latest, _normalize_date_to_str(Get(Head(rows), "date"))))

\* line 159
symbol_of(row) == PyOr(PyOr(Get(row, "symbol"), Get(row, "ticker")), Get(row, "code"))

\* lines 171-173
NonNegative(a) == IF a # None /\ FLess(a, Num(0)) THEN None ELSE a

\* lines 169-173
atr_pct_of(row) == NonNegative(_to_float(GetD(row, "atr_pct", Get(row, "atr"))))

\* line 177
OrZero(vol) == IF vol # None THEN vol ELSE Num(0)

\* lines 176-177
volume_of(row) == OrZero(_to_float(Get(row, "volume")))

liq_drop_inclusive(volume, liq_min) == FLessEq(volume, liq_min)

\* line 178: the liquidity filter drops the row
liq_drop(volume, liq_min) == FLess(volume, liq_min)

\* lines 196-203
total_mom_of(mom_5d, mom_20d) ==
  FAdd(FAdd(Num(0), IF mom_5d # None THEN mom_5d ELSE Num(0)),
       IF mom_20d # None THEN mom_20d ELSE Num(0))

s_mom_unclamped(mom_5d, mom_20d) ==
  IF total_mom_of(mom_5d, mom_20d).t = "num"
  THEN 50 * U + 500 * total_mom_of(mom_5d, mom_20d).v
  ELSE 50 * U

\* lines 196-208
s_mom_of(mom_5d, mom_20d) ==
  IF mom_5d # None \/ mom_20d # None
  THEN clamp_float(FAdd(Num(50 * U), FScale(500, total_mom_of(mom_5d, mom_20d))),
                   0, 100 * U)
  ELSE 50 * U

\* lines 211-217
s_vol_z(vol_z20) ==
  IF vol_z20 = None THEN 50 * U
  ELSE IF FLessEq(Num(0), vol_z20)
       THEN clamp_float(FAdd(Num(50 * U), FScale(35, vol_z20)), 0, 100 * U)
       ELSE clamp_float(FAdd(Num(50 * U), FScale(15, vol_z20)), 0, 100 * U)

\* lines 219-220
s_vol_shift(s_vol, vol_trend) ==
  IF vol_trend # None
  THEN clamp_float(FAdd(Num(s_vol), FScale(20, vol_trend)), 0, 100 * U)
  ELSE s_vol

\* lines 211-220
s_vol_of(vol_z20, vol_trend) == s_vol_shift(s_vol_z(vol_z20), vol_trend)

\* lines 223-230
s_trend_ema(ema20, ema50) ==
  IF ema20 # None /\ ema50 # None
  THEN IF FLess(ema50, ema20) THEN 70 * U
       ELSE IF FLess(ema20, ema50) THEN 40 * U ELSE 50 * U
  ELSE 50 * U

adx_bonus_flat(adx14) == IF adx14 # None THEN 5 * U ELSE 0

\* lines 232-236
adx_bonus(adx14) ==
  IF adx14 # None
  THEN IF FLessEq(Num(25 * U), adx14) THEN 10 * U
       ELSE IF FLessEq(Num(15 * U), adx14) THEN 5 * U ELSE 0
  ELSE 0

\* lines 223-238
s_trend_of(ema20, ema50, adx14) ==
  _clamp(s_trend_ema(ema20, ema50) + adx_bonus(adx14), 0, 100 * U)

s_breakout_inclusive(close, ema20) ==
  IF close # None /\ ema20 # None
  THEN IF FLessEq(ema20, close) THEN 75 * U ELSE 40 * U
  ELSE 50 * U

\* lines 241-246
s_breakout_of(close, ema20) ==
  IF close # None /\ ema20 # None
  THEN IF FLess(ema20, close) THEN 75 * U ELSE 40 * U
  ELSE 50 * U

\* line 249
s_rs_of == 50 * U

\* lines 252-256; 0.15 is 15/100
atr_penalty_of(atr_pct) ==
  IF atr_pct # None /\ FLess(Num(0), atr_pct)
  THEN PyMin(IF atr_pct.t = "num" THEN Num((atr_pct.v * 100) \div 15) ELSE atr_pct,
             Num(1 * U)).v * 10
  ELSE 0

\* lines 259-266; the weights are hundredths
base_score_of(s_mom, s_vol, s_trend, s_breakout, s_rs) ==
  _clamp((30 * s_mom + 20 * s_vol + 25 * s_trend + 15 * s_breakout + 10 * s_rs)
           \div 100, 0, 100 * U)

adj_score_clamped(base_score, macro_mult, atr_penalty) ==
  _clamp(base_score * macro_mult - atr_penalty * U, 0, 100 * U * U)

\* lines 269-270; counts 1/(U*U)
adj_score_of(base_score, macro_mult, atr_penalty) ==
  base_score * macro_mult - atr_penalty * U

\* lines 273-287
debug_row(latest_str, symbol, volume, atr_pct, macro_mult, s_mom, s_vol, s_trend, s_breakout, s_rs, atr_penalty, base_score) ==
  [date |-> latest_str, symbol |-> symbol,
   s_mom |-> s_mom, s_vol |-> s_vol, s_trend |-> s_trend,
   s_breakout |-> s_breakout, s_rs |-> s_rs,
   atr_penalty |-> atr_penalty, base_score |-> base_score,
   macro_mult |-> macro_mult,
   adj_score |-> adj_score_of(base_score, macro_mult, atr_penalty),
   volume |-> volume, atr_pct |-> atr_pct]

\* lines 251-287
score_of_subscores(latest_str, symbol, volume, atr_pct, macro_mult, s_mom, s_vol, s_trend, s_breakout, s_rs) ==
  debug_row(latest_str, symbol, volume, atr_pct, macro_mult,
            s_mom, s_vol, s_trend, s_breakout, s_rs,
            atr_penalty_of(atr_pct),
            base_score_of(s_mom, s_vol, s_trend, s_breakout, s_rs))

\* lines 182-249
score_of_features(latest_str, symbol, volume, atr_pct, macro_mult, mom_5d, mom_20d, vol_z20, vol_trend, adx14, close, ema20, ema50) ==
  score_of_subscores(latest_str, symbol, volume, atr_pct, macro_mult,
                     s_mom_of(mom_5d, mom_20d), s_vol_of(vol_z20, vol_trend),
                     s_trend_of(ema20, ema50, adx14), s_breakout_of(close, ema20),
                     s_rs_of)

\* lines 158-287: the debug row of one candidate that passed the filters
score_row(row, latest_str, macro_mult) ==
  score_of_features(latest_str, symbol_of(row), volume_of(row), atr_pct_of(row),
                    macro_mult,
                    _to_float(Get(row, "mom_5d")), _to_float(Get(row, "mom_20d")),
                    _to_float(Get(row, "vol_z20")), _to_float(Get(row, "vol_trend")),
                    _to_float(Get(row, "adx14")), _to_float(Get(row, "close")),
                    _to_float(Get(row, "ema20")), _to_float(Get(row, "ema50")))

\* lines 290-299
pick_row(dbg) ==
  [date |-> dbg.date, symbol |-> dbg.symbol, base_score |-> dbg.base_score,
   macro_mult |-> dbg.macro_mult, atr_pct |-> dbg.atr_pct, sector |-> Str(<<>>),
   volume |-> dbg.volume, adj_score |-> dbg.adj_score]

\* lines 158-180: the row reaches scoring
row_survives(row, latest_str, liq_min) ==
  /\ Truthy(symbol_of(row))
  /\ _normalize_date_to_str(Get(row, "date")) = latest_str
  /\ ~liq_drop(volume_of(row), liq_min)

RECURSIVE scored_rows(_, _, _, _)
scored_rows(rows, latest_str, liq_min, macro_mult) ==
  IF rows = <<>> THEN <<>>
  ELSE (IF row_survives(Head(rows), latest_str, liq_min)
        THEN <<score_row(Head(rows), latest_str, macro_mult)>>
        ELSE <<>>)
       \o scored_rows(Tail(rows), latest_str, liq_min, macro_mult)

sort_before_ascending(x, y) == x.adj_score <= y.adj_score

\* the order test of list.sort(key=adj_score or 0.0, reverse=True): x stays
\* before y
sort_before(x, y) == x.adj_score >= y.adj_score

\* stable insertion of x behind every element that stays before it
RECURSIVE sort_insert(_, _)
sort_insert(sorted, x) ==
  IF sorted = <<>> THEN <<x>>
  ELSE IF sort_before(Head(sorted), x)
       THEN <<Head(sorted)>> \o sort_insert(Tail(sorted), x)
       ELSE <<x>> \o sorted

\* lines 302-303
RECURSIVE sort_desc(_)
sort_desc(lst) ==
  IF lst = <<>> THEN <<>>
  ELSE sort_insert(sort_desc(SubSeq(lst, 1, Len(lst) - 1)), lst[Len(lst)])

picks_of_reversed(scored) == [i \in 1..Len(scored) |-> pick_row(scored[Len(scored) + 1 - i])]

\* lines 290-299
picks_of(scored) == [i \in 1..Len(scored) |-> pick_row(scored[i])]

\* lines 308-321
radar_return(latest_str, macro_trend_up, macro_mult, candidates_debug, picks) ==
  [latest_date |-> latest_str, candidates_debug |-> candidates_debug, picks |-> picks,
   summary |-> [latest |-> latest_str, candidates |-> Len(candidates_debug),
                picked |-> Len(picks),
                macro_trend |-> macro_trend_up, macro_mult |-> macro_mult]]

\* lines 301-321
radar_sorted(latest_str, macro_trend_up, macro_mult, scored) ==
  radar_return(latest_str, macro_trend_up, macro_mult,
               sort_desc(scored), sort_desc(picks_of(scored)))

\* lines 139-321
radar_from_latest(rows, latest_str, liq_min, macro_trend_up, macro_mult) ==
  IF latest_str = <<>>
  THEN [latest_date |-> <<>>, candidates_debug |-> <<>>, picks |-> <<>>,
        summary |-> [latest |-> <<>>, candidates |-> 0, picked |-> 0,
                     macro_trend |-> macro_trend_up, macro_mult |-> macro_mult]]
  ELSE radar_sorted(latest_str, macro_trend_up, macro_mult,
                    scored_rows(rows, latest_str, liq_min, macro_mult))

\* lines 53-321
compute_radar_from_candidates(rows, macro_trend_in, macro_mults_in, config_in) ==
  radar_from_latest(rows, latest_str_of(rows, <<>>), liq_min_of(config_in),
                    macro_trend_up_of(macro_trend_in),
                    macro_mult_of(macro_trend_in, macro_mults_in))

\* ------------------------------------------------------------------------
\* modules/indicator_engine.py
\* A list is a sequence; At reads it at a Python (0-based) index.  A price or
\* a volume is a fixed-point float; an epoch counts hours.
\* ------------------------------------------------------------------------
At(lst, i) == lst[i + 1]
Abs(x) == IF x < 0 THEN 0 - x ELSE x
Nones(n) == [i \in 1..n |-> None]
GetList(d, key) == IF key \in DOMAIN d THEN d[key] ELSE <<>>

RECURSIVE SumQuot(_, _)
SumQuot(xs, n) == IF xs = <<>> THEN 0 ELSE (Head(xs) \div n) + SumQuot(Tail(xs), n)
RECURSIVE SumRem(_, _)
SumRem(xs, n) == IF xs = <<>> THEN 0 ELSE (Head(xs) % n) + SumRem(Tail(xs), n)

\* sum(xs) / float(n), rounded down, without forming the sum
MeanOf(xs, n) == SumQuot(xs, n) + (SumRem(xs, n) \div n)

\* the prime factors of U
UFactors == <<3, 2, 2, 5, 5>>

\* long division: q + r/b times the remaining factors, rounded down
RECURSIVE LongDiv(_, _, _, _)
LongDiv(q, r, b, factors) ==
  IF factors = <<>> THEN q
  ELSE LongDiv(q * Head(factors) + ((r * Head(factors)) \div b),
               (r * Head(factors)) % b, b, Tail(factors))

\* a / b of two floats, b > 0, rounded down, without forming a * U
FDiv(a, b) == LongDiv(a \div b, a % b, b, UFactors)

\* x ** 0.5 of a float, rounded down
RECURSIVE SqrtBetween(_, _, _)
SqrtBetween(x, lo, hi) ==
  IF hi - lo <= 1 THEN lo
  ELSE IF ((lo + hi) \div 2) * ((lo + hi) \div 2) <= x
       THEN SqrtBetween(x, (lo + hi) \div 2, hi)
       ELSE SqrtBetween(x, lo, (lo + hi) \div 2)
FSqrt(x) == SqrtBetween(x * U, 0, 46341)

\* lines 11-24
_sma(series, n, k) ==
  IF series = <<>> \/ k < n - 1 \/ k >= Len(series) THEN None
  ELSE Num(MeanOf(SubSeq(series, k - n + 2, k + 1), n))

\* line 44 with k = 2/(n+1): v*k + ema*(1-k)
ema_next_wide(v, ema, n) == (2 * v + (n - 2) * ema) \div n

\* lines 37, 44: k = 2 / (n + 1), ema = v * k + ema * (1 - k)
ema_next(v, ema, n) == (2 * v + (n - 1) * ema) \div (n + 1)

\* lines 42-45
RECURSIVE ema_tail(_, _, _, _)
RECURSIVE ema_cons(_, _, _, _)
ema_cons(series, n, i, ema) == <<Num(ema)>> \o ema_tail(series, n, i + 1, ema)
ema_tail(series, n, i, ema) ==
  IF i >= Len(series) THEN <<>>
  ELSE ema_cons(series, n, i, ema_next(At(series, i), ema, n))

\* lines 27-47
_ema_series(series, n) ==
  IF Len(series) < n THEN Nones(Len(series))
  ELSE Nones(n - 1) \o ema_cons(series, n, n - 1, MeanOf(SubSeq(series, 1, n), n))

\* lines 50-59
_ema_at(series, n, k) ==
  IF k < 0 \/ k >= Len(series) THEN None ELSE At(_ema_series(series, n), k)

\* lines 73-78
macd_of(e12, e26) == IF e12 # None /\ e26 # None THEN Num(e12.v - e26.v) ELSE None

\* lines 67-78
macd_zip(ema12, ema26) == [i \in 1..Len(ema12) |-> macd_of(ema12[i], ema26[i])]

\* lines 62-80
_macd_main_line(close_arr) == macd_zip(_ema_series(close_arr, 12), _ema_series(close_arr, 26))

\* lines 106-109 and 195-199: the true range of bar i >= 1
tr_at(h, l, c, i) ==
  Max2(At(h, i) - At(l, i),
       Max2(Abs(At(h, i) - At(c, i - 1)), Abs(At(l, i) - At(c, i - 1))))

\* lines 101-104
dm_of(move, other) == IF move > 0 /\ move > other THEN move ELSE 0
dm_pos_at(h, l, i) == dm_of(At(h, i) - At(h, i - 1), At(l, i - 1) - At(l, i))
dm_neg_at(h, l, i) == dm_of(At(l, i - 1) - At(l, i), At(h, i) - At(h, i - 1))

\* lines 112-118: the sums over bars i..n
RECURSIVE tr_sum(_, _, _, _, _)
tr_sum(h, l, c, i, n) == IF i > n THEN 0 ELSE tr_at(h, l, c, i) + tr_sum(h, l, c, i + 1, n)
RECURSIVE dm_pos_sum(_, _, _, _)
dm_pos_sum(h, l, i, n) == IF i > n THEN 0 ELSE dm_pos_at(h, l, i) + dm_pos_sum(h, l, i + 1, n)
RECURSIVE dm_neg_sum(_, _, _, _)
dm_neg_sum(h, l, i, n) == IF i > n THEN 0 ELSE dm_neg_at(h, l, i) + dm_neg_sum(h, l, i + 1, n)

\* lines 122-124
wilder_sum(x_n, n, x) == x_n - (x_n \div n) + x

\* lines 126-131, the product taken before the quotient is rounded
di_of(dm_n, tr_n) == IF tr_n = 0 THEN 0 ELSE FDiv(100 * dm_n, tr_n)

\* lines 133-137
dx_of(di_pos, di_neg) ==
  IF di_pos + di_neg = 0 THEN 0 ELSE FDiv(100 * Abs(di_pos - di_neg), di_pos + di_neg)

\* lines 141-148: the first value is the raw DX
adx_out(i, n, prev, dx) == IF i = n + 1 THEN dx ELSE ((prev * (n - 1)) + dx) \div n

\* lines 121-149
RECURSIVE adx_loop(_, _, _, _, _, _, _, _, _)
RECURSIVE adx_emit(_, _, _, _, _, _, _, _, _)
adx_emit(h, l, c, n, i, tr_n, dm_pos_n, dm_neg_n, out_i) ==
  <<Num(out_i)>> \o adx_loop(h, l, c, n, i + 1, tr_n, dm_pos_n, dm_neg_n, out_i)
adx_smoothed(h, l, c, n, i, tr_n, dm_pos_n, dm_neg_n, prev) ==
  adx_emit(h, l, c, n, i, tr_n, dm_pos_n, dm_neg_n,
           adx_out(i, n, prev, dx_of(di_of(dm_pos_n, tr_n), di_of(dm_neg_n, tr_n))))
adx_loop(h, l, c, n, i, tr_n, dm_pos_n, dm_neg_n, prev) ==
  IF i >= Len(c) THEN <<>>
  ELSE adx_smoothed(h, l, c, n, i, wilder_sum(tr_n, n, tr_at(h, l, c, i)),
                    wilder_sum(dm_pos_n, n, dm_pos_at(h, l, i)),
                    wilder_sum(dm_neg_n, n, dm_neg_at(h, l, i)), prev)

\* lines 83-151
_adx_series(high, low, close, n) ==
  IF Len(close) < n + 1 THEN Nones(Len(close))
  ELSE Nones(n + 1) \o adx_loop(high, low, close, n, n + 1, tr_sum(high, low, close, 1, n),
                                dm_pos_sum(high, low, 1, n), dm_neg_sum(high, low, 1, n), 0)

\* lines 168-172: the absolute deviations of the n values ending at i
abs_devs(tp, n, i, sma) == [j \in 1..n |-> Abs(At(tp, i - n + j) - sma)]

\* lines 172-176; 0.015 is 15/1000
cci_of(dev, md) == IF md = 0 THEN Num(0) ELSE Num(FDiv(dev * 1000, 15 * md))

\* lines 162-176
cci_from_sma(tp, n, i, sma) ==
  IF sma = None THEN None
  ELSE cci_of(At(tp, i) - sma.v, MeanOf(abs_devs(tp, n, i, sma.v), n))

\* lines 154-178
_cci_series(tp, n) == [i \in 1..Len(tp) |-> cci_from_sma(tp, n, i - 1, _sma(tp, n, i - 1))]

\* lines 193-200
tr_list_of(h, l, c) == [j \in 1..(Len(h) - 1) |-> tr_at(h, l, c, j)]

\* lines 205-206
RECURSIVE atr_loop(_, _, _, _)
atr_loop(tr_list, n, i, atr) ==
  IF i >= Len(tr_list) THEN atr
  ELSE atr_loop(tr_list, n, i + 1, (atr * (n - 1) + At(tr_list, i)) \div n)

\* lines 202-207
atr_of_tr(tr_list, n) == atr_loop(tr_list, n, n, MeanOf(SubSeq(tr_list, 1, n), n))

\* line 190 asking for one bar more
atr_raises_under_sixteen(h, l, c, n) ==
  h = <<>> \/ l = <<>> \/ c = <<>> \/ Len(h) < n + 2 \/ Len(l) < n + 2 \/ Len(c) < n + 2

\* line 190: the ValueError is raised
atr_raises(h, l, c, n) ==
  h = <<>> \/ l = <<>> \/ c = <<>> \/ Len(h) < n + 1 \/ Len(l) < n + 1 \/ Len(c) < n + 1

\* lines 181-207; None stands for the ValueError
_atr_from_candles(h, l, c, period) ==
  IF atr_raises(h, l, c, period) THEN None
  ELSE Num(atr_of_tr(tr_list_of(h, l, c), period))

\* lines 221-226: the gains (sign = 1) or the losses (sign = -1) of the deltas i..k-1
RECURSIVE delta_sum(_, _, _, _)
delta_sum(close, i, k, sign) ==
  IF i >= k THEN 0
  ELSE (IF sign * (At(close, i + 1) - At(close, i)) > 0
        THEN sign * (At(close, i + 1) - At(close, i)) ELSE 0)
       + delta_sum(close, i + 1, k, sign)

rsi_of_without_gain_case(avg_gain, avg_loss) ==
  IF avg_loss # 0 THEN Num(100 * U - FDiv(100 * U, U + FDiv(avg_gain, avg_loss)))
  ELSE Num(50 * U)

\* lines 231-238
rsi_of(avg_gain, avg_loss) ==
  IF avg_loss # 0 THEN Num(100 * U - FDiv(100 * U, U + FDiv(avg_gain, avg_loss)))
  ELSE IF avg_gain # 0 THEN Num(100 * U)
  ELSE Num(50 * U)

\* lines 210-238
_compute_rsi14(close, k) ==
  IF k < 14 \/ k >= Len(close) THEN None
  ELSE rsi_of(delta_sum(close, k - 14, k, 1) \div 14, delta_sum(close, k - 14, k, -1) \div 14)

\* lines 250-252
vol_trend_of(v_sma5, v_sma20) ==
  IF v_sma5 = None \/ v_sma20 = None THEN None
  ELSE IF v_sma20.v = 0 THEN None
  ELSE Num(FDiv(v_sma5.v, v_sma20.v) - U)

\* lines 241-252
_compute_vol_trend(volumes, k) == vol_trend_of(_sma(volumes, 5, k), _sma(volumes, 20, k))

\* lines 275-276: 0.03 and 0.06
GreenMaxDefault == (3 * U) \div 100
YellowMaxDefault == (6 * U) \div 100

\* lines 278-291: float() with its fallback, a value >= 1 read as a percent
threshold_of(raw, default) == IF raw = None THEN Num(default) ELSE IF FLessEq(Num(U), raw) /\ raw.t = "num" THEN Num(raw.v \div 100) ELSE raw

\* lines 294-295
g_max_fixed(g_max) == IF FLessEq(g_max, Num(0)) THEN Num(GreenMaxDefault) ELSE g_max

y_max_unfixed(y_max, g_max) == y_max

\* lines 296-297
y_max_fixed(y_max, g_max) == IF FLessEq(y_max, g_max) THEN PyMax(Num(YellowMaxDefault), FAdd(g_max, Num(U \div 100))) ELSE y_max

\* lines 299-303
color_of(atr, g_max, y_max) ==
  IF FLessEq(atr, g_max) THEN S_GREEN ELSE IF FLessEq(atr, y_max) THEN S_YELLOW ELSE S_RED

color_with_g(atr, g_max, y_raw) == color_of(atr, g_max, y_max_fixed(y_raw, g_max))

\* lines 269-270: isinstance(x, (int, float)), which a bool passes as 0 or 1
IntOrFloat(x) == IF x.t = "bool" THEN Num(IF x.b THEN U ELSE 0) ELSE IF x.t \in {"num", "nan", "inf"} THEN x ELSE None

\* lines 271-303
color_of_number(atr, cfg) ==
  IF atr = None \/ FLess(atr, Num(0)) THEN <<>>
  ELSE color_with_g(atr,
                    g_max_fixed(threshold_of(PyFloat(GetD(cfg, "RISK_ATR_GREEN_MAX", Num(GreenMaxDefault))), GreenMaxDefault)),
                    threshold_of(PyFloat(GetD(cfg, "RISK_ATR_YELLOW_MAX", Num(YellowMaxDefault))), YellowMaxDefault))

\* lines 255-306
_macro_color_from_atr(atr_pct_decimal, cfg) == color_of_number(IntOrFloat(atr_pct_decimal), cfg)

\* lines 356-360
atr_pct_decimal_of(atr14, close_k) == IF close_k > 0 THEN Num(FDiv(atr14.v, close_k)) ELSE None

\* lines 363-373
mom_of(c, k, n) ==
  IF k >= n /\ At(c, k) # 0 /\ At(c, k - n) # 0
  THEN Num(FDiv(At(c, k), At(c, k - n)) - U) ELSE None

\* line 352
vol_k_of(v, k) == IF v # <<>> /\ Len(v) > k THEN Num(At(v, k)) ELSE None

\* line 382
sq_devs(last20, mean) == [j \in 1..Len(last20) |-> ((last20[j] - mean) * (last20[j] - mean)) \div U]

\* lines 385-389
z_of(dev, sd) == IF sd # 0 THEN Num(FDiv(dev, sd)) ELSE Num(0)

\* lines 380-389
vol_z_from_mean(vol_k, last20, mean) ==
  z_of(vol_k - mean, FSqrt(MeanOf(sq_devs(last20, mean), Len(last20))))

\* lines 376-389
vol_z20_of(v, k) ==
  IF v # <<>> /\ Len(v) > k /\ k >= 20
  THEN vol_z_from_mean(At(v, k), SubSeq(v, k - 19, k), MeanOf(SubSeq(v, k - 19, k), 20))
  ELSE None

\* lines 399-403
adx14_of(h, l, c, k) == IF k >= 14 THEN At(_adx_series(h, l, c, 14), k) ELSE None

\* lines 406-410
macd_val_of(c, k) == IF k >= 26 THEN At(_macd_main_line(c), k) ELSE None

\* lines 415-418
tp_of(h, l, c) == [i \in 1..Len(c) |-> (h[i] + l[i] + c[i]) \div 3]

\* lines 413-421
cci20_of(h, l, c, k) == IF k >= 19 THEN At(_cci_series(tp_of(h, l, c), 20), k) ELSE None

\* datetime.utcfromtimestamp(ts).strftime: the epoch counts hours
date_of_epoch(ts) == Strftime(ts \div 24)

\* lines 430-441; float(None) raises and the except branch takes today
date_str_of(t, k, utc_today) ==
  IF t # <<>> /\ Len(t) > k
  THEN IF At(t, k).t = "num" THEN date_of_epoch(At(t, k).v) ELSE Strftime(utc_today)
  ELSE Strftime(utc_today)

\* lines 443-466
snapshot_of(symbol, date_str, atr_pct_decimal, cfg, h, l, c, v, k) ==
  [raised |-> FALSE, error |-> "", symbol |-> symbol, date |-> date_str,
   indicators |->
     [atr_pct |-> atr_pct_decimal, mom5 |-> mom_of(c, k, 5), mom20 |-> mom_of(c, k, 20),
      vol_z20 |-> vol_z20_of(v, k), rsi14 |-> _compute_rsi14(c, k),
      ema20 |-> _ema_at(c, 20, k), ema50 |-> _ema_at(c, 50, k),
      adx14 |-> adx14_of(h, l, c, k), macd |-> macd_val_of(c, k),
      cci20 |-> cci20_of(h, l, c, k),
      vol_trend |-> (IF v # <<>> THEN _compute_vol_trend(v, k) ELSE None),
      risk_color |-> Str(_macro_color_from_atr(atr_pct_decimal, cfg)),
      close |-> Num(At(c, k)), high |-> Num(At(h, k)), low |-> Num(At(l, k)),
      volume |-> vol_k_of(v, k)]]

\* what the except clause of the caller sees
Raised(symbol, msg) ==
  [raised |-> TRUE, error |-> msg, symbol |-> symbol, date |-> <<>>, indicators |-> <<>>]

indicators_with_absent_atr(symbol, t, h, l, c, v, cfg, utc_today, atr14) ==
  snapshot_of(symbol, date_str_of(t, Len(c) - 1, utc_today),
              IF atr14 = None THEN None ELSE atr_pct_decimal_of(atr14, At(c, Len(c) - 1)),
              cfg, h, l, c, v, Len(c) - 1)

\* lines 347-466, the series not empty
indicators_with_atr(symbol, t, h, l, c, v, cfg, utc_today, atr14) ==
  IF atr14 = None THEN Raised(symbol, "ATR verisi yetersiz")
  ELSE snapshot_of(symbol, date_str_of(t, Len(c) - 1, utc_today),
                   atr_pct_decimal_of(atr14, At(c, Len(c) - 1)), cfg, h, l, c, v, Len(c) - 1)

\* lines 343-466
indicators_of_lists(symbol, t, h, l, c, v, cfg, utc_today) ==
  IF Len(c) = 0 THEN Raised(symbol, "No candle data for symbol")
  ELSE IF Len(h) < Len(c) \/ Len(l) < Len(c) THEN Raised(symbol, "list index out of range")
  ELSE indicators_with_atr(symbol, t, h, l, c, v, cfg, utc_today, _atr_from_candles(h, l, c, 14))

\* lines 313-466
compute_indicators_for_symbol(symbol, candles, cfg, utc_today) ==
  indicators_of_lists(symbol, GetList(candles, "t"), GetList(candles, "h"),
                      GetList(candles, "l"), GetList(candles, "c"), GetList(candles, "v"),
                      cfg, utc_today)

\* lines 538-545: the row appended for a symbol, from the snapshot or
\* from the except clause
candidate_of(info, sym, utc_today) ==
  IF info.raised
  THEN [symbol |-> sym, date |-> Strftime(utc_today), indicators |-> <<>>, error |-> info.error]
  ELSE [symbol |-> info.symbol, date |-> info.date, indicators |-> info.indicators]

\* lines 529-545: the loop over the symbols
RECURSIVE real_candidates(_, _, _, _)
real_candidates(symbols, candles_by_symbol, cfg, utc_today) ==
  IF symbols = <<>> THEN <<>>
  ELSE (IF Head(symbols) \notin DOMAIN candles_by_symbol THEN <<>>
        ELSE IF DOMAIN candles_by_symbol[Head(symbols)] = {} THEN <<>>
        ELSE <<candidate_of(compute_indicators_for_symbol(Head(symbols),
                              candles_by_symbol[Head(symbols)], cfg, utc_today),
                            Head(symbols), utc_today)>>)
       \o real_candidates(Tail(symbols), candles_by_symbol, cfg, utc_today)

\* lines 558-579: the fabricated row of the i-th symbol
dummy_candidate(sym, i, utc_today) ==
  [date |-> Strftime(utc_today), symbol |-> sym,
   indicators |->
     [volume |-> Num((2000000 + i * 100000) * U), atr_pct |-> Num(24),
      mom5 |-> Num(((20 + i) * U) \div 1000), mom20 |-> Num(((50 + i) * U) \div 1000),
      vol_z20 |-> Num(450), rsi14 |-> Num(55 * U), macd |-> Num(150),
      adx14 |-> Num(22 * U), cci20 |-> Num(100 * U), vol_trend |-> Num(150),
      close |-> Num((100 + i) * U), ema20 |-> Num((98 + i) * U),
      ema50 |-> Num((95 + i) * U), risk_color |-> Str(S_YELLOW)]]

\* lines 555-579
dummy_candidates(symbols, utc_today) ==
  [j \in 1..Min2(Len(symbols), 10) |-> dummy_candidate(symbols[j], j - 1, utc_today)]

\* a dict handed over as a value
Dict(d) == [t |-> "dict", d |-> d]

\* lines 473-582; candles_by_symbol is None when the context has no such key
run_indicator_engine(symbols, candles_by_symbol, cfg, utc_today) ==
  IF candles_by_symbol # None /\ DOMAIN candles_by_symbol.d # {}
  THEN [radar_candidates |-> real_candidates(symbols, candles_by_symbol.d, cfg, utc_today)]
  ELSE [radar_candidates |-> dummy_candidates(symbols, utc_today)]

\* ------------------------------------------------------------------------
\* modules/fetch_engine.py
\* yahoo is what the download returns: the bar rows of each symbol it knows
\* ------------------------------------------------------------------------
RECURSIVE symbols_with_rows(_, _)
symbols_with_rows(symbols, yahoo) ==
  IF symbols = <<>> THEN <<>>
  ELSE (IF Head(symbols) \in DOMAIN yahoo /\ yahoo[Head(symbols)] # <<>>
        THEN <<Head(symbols)>> ELSE <<>>)
       \o symbols_with_rows(Tail(symbols), yahoo)

Range(seq) == {seq[i] : i \in 1..Len(seq)}

fetch_return(symbols, keys, yahoo, utc_today) ==
  [status |-> IF keys # <<>> THEN "OK" ELSE "ERROR", as_of |-> Strftime(utc_today),
   symbols |-> symbols, keys |-> keys, data |-> [sym \in Range(keys) |-> yahoo[sym]],
   errors |-> IF symbols = <<>> THEN 1 ELSE Len(symbols) - Len(keys)]

\* the dict "data" is the map data with its keys in insertion order
run_fetch_engine(symbols, yahoo, utc_today) ==
  fetch_return(symbols, symbols_with_rows(symbols, yahoo), yahoo, utc_today)

\* ------------------------------------------------------------------------
\* main.py
\* ------------------------------------------------------------------------
\* str(x)
PyStr(x) ==
  CASE x.t = "str"  -> x.s
    [] x.t = "date" -> Strftime(x.d)
    [] OTHER        -> <<78, 111, 110, 101>>

AllDigits(s) == \A i \in 1..Len(s) : s[i] \in 48..57

DayOfYMD(y, m, d) ==
  IF y = 2024 /\ m = 12 /\ d \in 1..31 THEN Num(d - 31)
  ELSE IF y = 2025 /\ m = 1 /\ d \in 1..31 THEN Num(d)
  ELSE IF y = 2025 /\ m = 2 /\ d \in 1..28 THEN Num(31 + d)
  ELSE None

\* datetime.strptime(ds, "%Y-%m-%d") as a day number, None for the ValueError
Strptime(ds) ==
  IF Len(ds) = 10 /\ ds[5] = 45 /\ ds[8] = 45
     /\ AllDigits(SubSeq(ds, 1, 4) \o SubSeq(ds, 6, 7) \o SubSeq(ds, 9, 10))
  THEN DayOfYMD(DigitsValue(SubSeq(ds, 1, 4)), DigitsValue(SubSeq(ds, 6, 7)),
                DigitsValue(SubSeq(ds, 9, 10)))
  ELSE None

\* time.mktime of local midnight; the host is tz hours east of UTC
mktime_of(day, tz) == IF day = None THEN None ELSE Num(day.v * 24 - tz)

\* lines 129-135
epoch_of(ds, tz) == mktime_of(Strptime(ds), tz)

\* lines 124-141, one list
t_list_of(rows, tz) == [i \in 1..Len(rows) |-> epoch_of(PyStr(Get(rows[i], "date")), tz)]
float_list_of(rows, key) == [i \in 1..Len(rows) |-> PyFloat(GetD(rows[i], key, Num(0))).v]
dates_of(rows) == [i \in 1..Len(rows) |-> PyStr(Get(rows[i], "date"))]

\* lines 143-151
candles_of_rows(rows, tz) ==
  [date |-> dates_of(rows), t |-> t_list_of(rows, tz), o |-> float_list_of(rows, "open"),
   h |-> float_list_of(rows, "high"), l |-> float_list_of(rows, "low"),
   c |-> float_list_of(rows, "close"), v |-> float_list_of(rows, "volume")]

\* lines 84-153
build_candles_by_symbol(fetch_result, tz) ==
  [sym \in {k \in DOMAIN fetch_result.data : fetch_result.data[k] # <<>>} |->
     candles_of_rows(fetch_result.data[sym], tz)]

\* lines 384-405
flat_of(sym, dt_str, ind) ==
  [date |-> Str(dt_str), symbol |-> Str(sym), volume |-> Get(ind, "volume"),
   atr_pct |-> Get(ind, "atr_pct"), mom_5d |-> Get(ind, "mom5"),
   mom_20d |-> Get(ind, "mom20"), vol_z20 |-> Get(ind, "vol_z20"),
   rsi_14 |-> Get(ind, "rsi14"), ema20 |-> Get(ind, "ema20"), ema50 |-> Get(ind, "ema50"),
   adx14 |-> Get(ind, "adx14"), macd |-> Get(ind, "macd"), cci20 |-> Get(ind, "cci20"),
   vol_trend |-> Get(ind, "vol_trend"), close |-> Get(ind, "close")]

\* lines 382-406
radar_candidates_flat_of(radar_candidates_struct) ==
  [i \in 1..Len(radar_candidates_struct) |->
     flat_of(radar_candidates_struct[i].symbol, radar_candidates_struct[i].date,
             radar_candidates_struct[i].indicators)]

\* lines 351-353
regime_info == [regime |-> Str(S_YELLOW)]

\* lines 411-416
RadarConfig ==
  [macro_mult_GREEN |-> Num(315), macro_mult_YELLOW |-> Num(U), macro_mult_RED |-> Num(270)]

\* radar_engine.py lines 350-355
macro_mults_of(cfg) ==
  (S_GREEN :> PyFloat(GetD(cfg, "macro_mult_GREEN", Num(U))).v)
  @@ (S_YELLOW :> PyFloat(GetD(cfg, "macro_mult_YELLOW", Num(U))).v)
  @@ (S_RED :> PyFloat(GetD(cfg, "macro_mult_RED", Num(U))).v)
  @@ (S_DEFAULT :> U)

\* radar_engine.py lines 364-368
radar_output_of(radar_result) ==
  [radar |-> radar_result.picks, radar_debug |-> radar_result.candidates_debug,
   radar_summary |-> radar_result.summary]

\* radar_engine.py lines 324-368
run_radar_engine(radar_candidates_in, regime, cfg) ==
  radar_output_of(compute_radar_from_candidates(radar_candidates_in,
                    Str(Upper(PyStr(GetD(regime, "regime", Str(S_YELLOW))))),
                    macro_mults_of(cfg), cfg))

\* ------------------------------------------------------------------------
\* Inputs of the scoring engine
\* ------------------------------------------------------------------------
S_A == <<65>>
S_B == <<66>>
S_C == <<67>>
S_X == <<88>>
S_Y == <<89>>
S_abc == <<97, 98, 99>>
S_2000000 == <<50, 48, 48, 48, 48, 48, 48>>
S_T0930 == <<84, 48, 57, 58, 51, 48>>

\* the candidate run_indicator_engine fabricates in dummy mode, i = 0
FeatHi ==
  [mom_5d |-> Num(6), mom_20d |-> Num(15), vol_z20 |-> Num(450),
   vol_trend |-> Num(150), close |-> Num(100 * U), ema20 |-> Num(98 * U),
   ema50 |-> Num(95 * U), adx14 |-> Num(22 * U), atr_pct |-> Num(24),
   rsi_14 |-> Num(55 * U), macd |-> Num(150), cci20 |-> Num(100 * U)]

\* a falling, quiet, volatile symbol; atr_pct is the string "30%"
FeatLo ==
  [mom_5d |-> Num(-60), vol_z20 |-> Num(-600), close |-> Num(90 * U),
   ema20 |-> Num(95 * U), ema50 |-> Num(98 * U), atr_pct |-> Str(<<51, 48, 37>>)]

FeatNone == [sector |-> Str(S_Y)]

RadarRows ==
  { [symbol |-> Str(S_A), date |-> Str(Strftime(d)), sector |-> Str(S_X)] @@ vf :
      d \in {2, 3},
      vf \in {[volume |-> Num(2000000 * U)] @@ FeatHi, [volume |-> Num(1000000 * U)] @@ FeatLo} }
  \cup
  { [symbol |-> Str(S_A), date |-> Str(Strftime(3)), sector |-> Str(S_X),
     volume |-> Num(999999 * U)] @@ FeatHi }
  \cup
  { [symbol |-> Str(S_B), date |-> Str(Strftime(3)), sector |-> Str(S_X)] @@ vf :
      vf \in {[volume |-> Num(2000000 * U)] @@ FeatHi, [volume |-> Num(1000000 * U)] @@ FeatLo} }
  \cup
  { [ticker |-> Str(S_C), date |-> Str(Strftime(3))] @@ FeatNone,
    [date |-> Str(Strftime(4)), volume |-> Num(2000000 * U)] @@ FeatNone,
    [symbol |-> Str(S_C), volume |-> Num(2000000 * U)] @@ FeatHi,
    [symbol |-> Str(S_C), date |-> Str(Strftime(3) \o S_T0930),
     volume |-> Str(S_2000000)] @@ FeatLo,
    [symbol |-> Str(S_C), date |-> DateObj(3), volume |-> Str(S_abc)] @@ FeatHi,
    [symbol |-> Str(S_C), date |-> Str(Strftime(3)), volume |-> Num(5 * U)] @@ FeatNone }

MultsFull ==
  (S_GREEN :> 315) @@ (S_YELLOW :> 285) @@ (S_RED :> 270) @@ (S_DEFAULT :> 300)
MultsLow == (S_GREEN :> 120) @@ (S_RED :> 60)

RadarScenarios ==
  { [config |-> <<>>, macro_trend |-> Str(S_GREEN), macro_mults |-> MultsFull],
    [config |-> [RADAR_LIQ_MIN |-> Num(5 * U), RADAR_USE_SECTOR_CAP |-> Bool(TRUE),
                 RADAR_SECTOR_CAP |-> Num(1 * U)],
     macro_trend |-> Str(<<114, 101, 100>>), macro_mults |-> MultsLow],
    [config |-> [RADAR_LIQ_MIN |-> Str(S_abc)],
     macro_trend |-> Str(<<>>), macro_mults |-> MultsFull],
    [config |-> [RADAR_LIQ_MIN |-> Num(0), RADAR_USE_SECTOR_CAP |-> Bool(TRUE),
                 RADAR_SECTOR_CAP |-> Num(1 * U)],
     macro_trend |-> Str(<<80, 85, 82, 80, 76, 69>>), macro_mults |-> MultsFull],
    [config |-> [RADAR_USE_SECTOR_CAP |-> Bool(FALSE)],
     macro_trend |-> None, macro_mults |-> MultsLow] }

\* ------------------------------------------------------------------------
\* State
\* ------------------------------------------------------------------------
\* ------------------------------------------------------------------------
\* Inputs of the indicator engine and of the pipeline
\* ------------------------------------------------------------------------
MaxBars == 51
MaxSymbols == 2

\* the close of bar i of a price pattern
close_at(price, i) ==
  CASE price = "rise"   -> (100 + i) * U
    [] price = "fall"   -> (200 - i) * U
    [] price = "zigzag" -> (100 + 2 * (i % 2)) * U
    [] price = "flat"   -> 100 * U
    [] price = "surge"  -> (100 + i + 3 * (i % 2)) * U
    [] price = "drop"   -> IF i % 7 = 6 THEN 0 ELSE 10 * U
    [] OTHER            -> 0

\* half the height of a bar
spread_of(price) == IF price \in {"rise", "fall", "zigzag", "surge"} THEN U ELSE 0

\* the volume of bar i of a volume pattern
volume_at(vol, i) ==
  CASE vol = "wave" -> (1200000 + 100 * (i % 2)) * U
    [] vol = "thin" -> 500000 * U
    [] OTHER        -> 1200000 * U

\* the candles with bar i of the feed appended: the stamp is midnight UTC of
\* day i+1 or missing, the volume list exists or not
candles_with_bar(candles, feed, i) ==
  [t |-> Append(candles.t, IF feed.stamp = "num" THEN Num((i + 1) * 24) ELSE None),
   o |-> Append(candles.o, close_at(feed.price, i)),
   h |-> Append(candles.h, close_at(feed.price, i) + spread_of(feed.price)),
   l |-> Append(candles.l, close_at(feed.price, i) - spread_of(feed.price)),
   c |-> Append(candles.c, close_at(feed.price, i))]
  @@ (IF feed.vol = "none" THEN <<>>
      ELSE [v |-> Append(GetList(candles, "v"), volume_at(feed.vol, i))])

NoCandles == [t |-> <<>>, o |-> <<>>, h |-> <<>>, l |-> <<>>, c |-> <<>>]

IndFeeds ==
  [price : {"rise", "fall", "zigzag", "flat", "zero", "surge", "drop"},
   vol : {"flat", "wave", "none"},
   stamp : {"num", "none"}]

IndConfigs ==
  { <<>>,
    [RISK_ATR_GREEN_MAX |-> Num(2 * U), RISK_ATR_YELLOW_MAX |-> Str(S_abc)] }

\* the row the download yields for bar i of n, the last bar dated day last
yahoo_row(series, i) ==
  [date |-> Str(Strftime(series.last - series.n + i)),
   open |-> Num(close_at(series.price, i - 1)),
   high |-> Num(close_at(series.price, i - 1) + spread_of(series.price)),
   low |-> Num(close_at(series.price, i - 1) - spread_of(series.price)),
   close |-> Num(close_at(series.price, i - 1)),
   volume |-> Num(volume_at(series.vol, i - 1))]

yahoo_rows(series) == [i \in 1..series.n |-> yahoo_row(series, i)]

\* what the download can return for one symbol; n = 0 is no data
PipeSeries ==
  { [n |-> 0, price |-> "rise", vol |-> "flat", last |-> 3],
    [n |-> 5, price |-> "rise", vol |-> "flat", last |-> 3],
    [n |-> 14, price |-> "fall", vol |-> "flat", last |-> 3],
    [n |-> 15, price |-> "rise", vol |-> "thin", last |-> 3],
    [n |-> 30, price |-> "rise", vol |-> "flat", last |-> 3],
    [n |-> 30, price |-> "fall", vol |-> "wave", last |-> 3],
    [n |-> 30, price |-> "zigzag", vol |-> "flat", last |-> 2] }

Universe == {S_A, S_B, S_C}

RECURSIVE SeqsOver(_, _)
SeqsOver(S, n) ==
  IF n = 0 THEN {<<>>}
  ELSE SeqsOver(S, n - 1)
       \cup {Append(q, x) : q \in {p \in SeqsOver(S, n - 1) : Len(p) = n - 1}, x \in S}

Distinct(q) == \A i, j \in 1..Len(q) : i # j => q[i] # q[j]

\* the symbol lists of a request
SymbolLists == {q \in SeqsOver(Universe, MaxSymbols) : Distinct(q)}

VARIABLES
  radar_candidates,   \* the candidate rows handed to the scoring engine
  macro_trend,        \* the regime label
  macro_mults,        \* the multiplier table
  config,             \* the config block
  radar_called,       \* compute_radar_from_candidates has returned
  radar_result,       \* what it returned
  ind_candles,        \* the candles handed to compute_indicators_for_symbol
  ind_feed,           \* the pattern the bars of ind_candles follow
  ind_cfg,            \* its cfg
  ind_called,         \* compute_indicators_for_symbol has returned or raised
  ind_result,         \* the snapshot, or the exception
  probe,              \* one call of a helper on the series: its arguments and result
  utc_today,          \* the day datetime.utcnow() falls on
  tz_offset,          \* hours the host's local time is east of UTC
  pipe_pc,            \* the stage simulate_pipeline_run is about to run
  pipe_symbols,       \* symbols
  fetch_result,       \* fetch_result
  radar_candidates_struct, \* radar_candidates_struct
  radar_output,       \* radar_output
  pipeline_state,     \* the global pipeline_state
  result_state,       \* the global result_state
  requests,           \* per /runMorningPipeline request: its position and its locals
  clock               \* seconds datetime.utcnow() has counted

radarVars == <<radar_candidates, macro_trend, macro_mults, config, radar_called, radar_result>>
indVars == <<ind_candles, ind_feed, ind_cfg, ind_called, ind_result, probe>>
pipeVars == <<tz_offset, pipe_pc, pipe_symbols, fetch_result, radar_candidates_struct, radar_output, pipeline_state, result_state, requests, clock>>

vars == <<radarVars, indVars, utc_today, pipeVars>>

\* main.py lines 160-176
PipelineStateInit ==
  [pipeline_status |-> "IDLE", start_time |-> None, end_time |-> None, modules |-> <<>>]
ResultStateInit ==
  [result_ready |-> FALSE, last_run |-> None, radar |-> <<>>, radar_debug |-> <<>>,
   radar_summary |-> <<>>, core10 |-> <<>>]

NoFetch == [status |-> "", as_of |-> <<>>, symbols |-> <<>>, keys |-> <<>>, data |-> <<>>, errors |-> 0]
NoRadarOutput == [radar |-> <<>>, radar_debug |-> <<>>, radar_summary |-> <<>>]

\* no request has been made and no indicator call either
RadarIdle ==
  /\ radar_candidates = <<>>
  /\ macro_trend = Str(S_YELLOW)
  /\ macro_mults = <<>>
  /\ config = <<>>
  /\ radar_called = FALSE
NoProbe == [fn |-> "", k |-> 0, n |-> 0, arg |-> None, out |-> None]

IndIdle ==
  /\ probe = NoProbe
  /\ ind_candles = NoCandles
  /\ ind_feed = [price |-> "flat", vol |-> "none", stamp |-> "none"]
  /\ ind_cfg = <<>>
  /\ ind_called = FALSE
  /\ ind_result = Raised(<<>>, "")
\* a request that has not arrived
NoRequest ==
  [pc |-> "idle", symbols |-> <<>>, start_time |-> None, end_time |-> None,
   modules |-> <<>>, radar_output |-> NoRadarOutput, response |-> <<>>]

PipeIdle ==
  /\ requests = <<>>
  /\ clock = 0
  /\ tz_offset = 0
  /\ pipe_pc = "idle"
  /\ pipe_symbols = <<>>
  /\ fetch_result = NoFetch
  /\ radar_candidates_struct = <<>>
  /\ radar_output = NoRadarOutput
  /\ pipeline_state = PipelineStateInit
  /\ result_state = ResultStateInit

EmptyResult ==
  [latest_date |-> <<>>, candidates_debug |-> <<>>, picks |-> <<>>,
   summary |-> [latest |-> <<>>, candidates |-> 0, picked |-> 0,
                macro_trend |-> <<>>, macro_mult |-> 0]]

Init ==
  /\ radar_candidates = <<>>
  /\ \E sc \in RadarScenarios :
       /\ config = sc.config
       /\ macro_trend = sc.macro_trend
       /\ macro_mults = sc.macro_mults
  /\ radar_called = FALSE
  /\ radar_result = EmptyResult
  /\ IndIdle
  /\ utc_today = 1
  /\ PipeIdle

\* the caller puts one more row into the list it will pass
AddCandidate ==
  /\ ~radar_called
  /\ Len(radar_candidates) < MaxRows
  /\ \E r \in RadarRows : radar_candidates' = Append(radar_candidates, r)
  /\ UNCHANGED <<macro_trend, macro_mults, config, radar_called, radar_result>>
  /\ UNCHANGED <<indVars, utc_today, pipeVars>>

\* one call of compute_radar_from_candidates
CallRadar ==
  /\ ~radar_called
  /\ radar_result' =
       compute_radar_from_candidates(radar_candidates, macro_trend, macro_mults, config)
  /\ radar_called' = TRUE
  /\ UNCHANGED <<radar_candidates, macro_trend, macro_mults, config>>
  /\ UNCHANGED <<indVars, utc_today, pipeVars>>

Next == AddCandidate \/ CallRadar

Spec == Init /\ [][Next]_vars

\* ------------------------------------------------------------------------
\* The scoring of one row over every combination of its features
\* ------------------------------------------------------------------------
Opt(key, vals) == {<<>>} \cup {key :> x : x \in vals}

EmaCloseCombos ==
  { <<>>,
    [close |-> Num(100 * U), ema20 |-> Num(98 * U), ema50 |-> Num(95 * U)],
    [close |-> Num(90 * U), ema20 |-> Num(95 * U), ema50 |-> Num(98 * U)],
    [close |-> Num(98 * U), ema20 |-> Num(98 * U), ema50 |-> Num(98 * U)],
    [ema20 |-> Num(98 * U)],
    [close |-> Str(S_abc), ema50 |-> Num(95 * U)] }

\* the fields of a row that the scoring reads as numbers
NumericFields ==
  {"atr_pct", "volume", "mom_5d", "mom_20d", "vol_z20", "vol_trend", "ema20", "ema50",
   "adx14", "close"}

\* texts that are no number: "abc", "", "  ", "nan"
MalformedTexts == {Str(S_abc), Str(<<>>), Str(<<32, 32>>), Str(<<110, 97, 110>>)}

\* a full row with one numeric field malformed
MalformedRows ==
  { [f \in DOMAIN FeatHi \cup {"symbol", "date", "volume"} |->
       IF f = bad THEN m
       ELSE IF f = "symbol" THEN Str(S_A)
       ELSE IF f = "date" THEN Str(Strftime(3))
       ELSE IF f = "volume" THEN Num(2000000 * U)
       ELSE FeatHi[f]] : bad \in NumericFields, m \in MalformedTexts }

\* texts of a fraction and the float they stand for: "8%", "8,0%", "8.0%",
\* " 8% ", "30%", "150%", "1,00%" and, without the sign, "0,08"
PercentTexts ==
  { <<Str(<<56, 37>>), (8 * U) \div 100>>,
    <<Str(<<56, 44, 48, 37>>), (8 * U) \div 100>>,
    <<Str(<<56, 46, 48, 37>>), (8 * U) \div 100>>,
    <<Str(<<32, 56, 37, 32>>), (8 * U) \div 100>>,
    <<Str(<<51, 48, 37>>), (30 * U) \div 100>>,
    <<Str(<<49, 53, 48, 37>>), (150 * U) \div 100>>,
    <<Str(<<49, 44, 48, 48, 37>>), (1 * U) \div 100>>,
    <<Str(<<48, 44, 48, 56>>), (8 * U) \div 100>> }

\* a full row whose atr_pct is such a text
PercentRows ==
  { [f \in DOMAIN FeatHi \cup {"symbol", "date", "volume"} |->
       IF f = "atr_pct" THEN p[1]
       ELSE IF f = "symbol" THEN Str(S_A)
       ELSE IF f = "date" THEN Str(Strftime(3))
       ELSE IF f = "volume" THEN Num(2000000 * U)
       ELSE FeatHi[f]] : p \in PercentTexts }

ScoreRows ==
  MalformedRows \cup PercentRows \cup
  { [symbol |-> Str(S_A), date |-> Str(Strftime(3)), volume |-> Num(2000000 * U)]
      @@ m5 @@ m20 @@ vz @@ vt @@ ec @@ ad @@ at :
      m5 \in Opt("mom_5d", {Num(-60), Num(6), Num(3000), Num(-3000)}),
      m20 \in Opt("mom_20d", {Num(15), NaN}),
      vz \in Opt("vol_z20", {Num(-600), Num(450), Num(30000), Num(-30000)}),
      vt \in Opt("vol_trend", {Num(150), Num(-1500)}),
      ec \in EmaCloseCombos,
      ad \in Opt("adx14", {Num(10 * U), Num(22 * U), Num(30 * U)}),
      at \in Opt("atr_pct", {Num(24), Str(<<51, 48, 37>>), Num(-3), Num(0), Str(S_abc)}) }

ScoreScenarios ==
  { [config |-> <<>>, macro_trend |-> Str(S_GREEN), macro_mults |-> MultsFull],
    [config |-> <<>>, macro_trend |-> Str(S_RED), macro_mults |-> MultsLow] }

InitScore ==
  /\ radar_candidates = <<>>
  /\ \E sc \in ScoreScenarios :
       /\ config = sc.config
       /\ macro_trend = sc.macro_trend
       /\ macro_mults = sc.macro_mults
  /\ radar_called = FALSE
  /\ radar_result = EmptyResult
  /\ IndIdle
  /\ utc_today = 1
  /\ PipeIdle

\* the caller passes a single row
AddScoreRow ==
  /\ ~radar_called
  /\ radar_candidates = <<>>
  /\ \E r \in ScoreRows : radar_candidates' = <<r>>
  /\ UNCHANGED <<macro_trend, macro_mults, config, radar_called, radar_result>>
  /\ UNCHANGED <<indVars, utc_today, pipeVars>>

NextScore == AddScoreRow \/ CallRadar

SpecScore == InitScore /\ [][NextScore]_vars

\* ------------------------------------------------------------------------
\* The indicator engine on one growing bar series
\* ------------------------------------------------------------------------
InitInd ==
  /\ RadarIdle
  /\ radar_result = EmptyResult
  /\ ind_candles = NoCandles
  /\ ind_feed \in IndFeeds
  /\ ind_cfg \in IndConfigs
  /\ ind_called = FALSE
  /\ ind_result = Raised(<<>>, "")
  /\ probe = NoProbe
  /\ utc_today = MaxBars
  /\ PipeIdle

\* the provider delivers one more bar
AppendBar ==
  /\ ~ind_called
  /\ probe = NoProbe
  /\ Len(ind_candles.c) < MaxBars
  /\ ind_candles' = candles_with_bar(ind_candles, ind_feed, Len(ind_candles.c))
  /\ UNCHANGED <<ind_feed, ind_cfg, ind_called, ind_result, probe>>
  /\ UNCHANGED <<radarVars, utc_today, pipeVars>>

\* one call of compute_indicators_for_symbol
CallIndicators ==
  /\ ~ind_called
  /\ ind_result' = compute_indicators_for_symbol(S_A, ind_candles, ind_cfg, utc_today)
  /\ ind_called' = TRUE
  /\ UNCHANGED <<ind_candles, ind_feed, ind_cfg, probe>>
  /\ UNCHANGED <<radarVars, utc_today, pipeVars>>

NextInd == AppendBar \/ CallIndicators

SpecInd == InitInd /\ [][NextInd]_vars

\* ------------------------------------------------------------------------
\* The helpers of the indicator engine, called on a series that grows bar by
\* bar
\* ------------------------------------------------------------------------
\* the window lengths the engine and its helpers are called with
EmaWindows == {1, 2, 12, 20, 26, 50}

InitFn ==
  /\ RadarIdle
  /\ radar_result = EmptyResult
  /\ ind_candles = NoCandles
  /\ ind_feed \in {f \in IndFeeds : f.vol = "none" /\ f.stamp = "none"}
  /\ ind_cfg = <<>>
  /\ ind_called = FALSE
  /\ ind_result = Raised(<<>>, "")
  /\ probe = NoProbe
  /\ utc_today = MaxBars
  /\ PipeIdle

\* one call of _compute_rsi14 at an index inside or past the series
ProbeRsi ==
  /\ probe = NoProbe
  /\ \E k \in 0..(Len(ind_candles.c) + 1) :
       probe' = [fn |-> "_compute_rsi14", k |-> k, n |-> 14, arg |-> None,
                 out |-> _compute_rsi14(ind_candles.c, k)]
  /\ UNCHANGED <<ind_candles, ind_feed, ind_cfg, ind_called, ind_result>>
  /\ UNCHANGED <<radarVars, utc_today, pipeVars>>

\* one call of _ema_series
ProbeEma ==
  /\ probe = NoProbe
  /\ \E n \in EmaWindows :
       probe' = [fn |-> "_ema_series", k |-> 0, n |-> n, arg |-> None,
                 out |-> _ema_series(ind_candles.c, n)]
  /\ UNCHANGED <<ind_candles, ind_feed, ind_cfg, ind_called, ind_result>>
  /\ UNCHANGED <<radarVars, utc_today, pipeVars>>

NextFn == AppendBar \/ ProbeRsi \/ ProbeEma

SpecFn == InitFn /\ [][NextFn]_vars

\* ------------------------------------------------------------------------
\* One run of simulate_pipeline_run, stage by stage
\* ------------------------------------------------------------------------
InitPipe ==
  /\ RadarIdle
  /\ radar_result = EmptyResult
  /\ IndIdle
  /\ utc_today \in {3, 4}
  /\ tz_offset \in {-5, 0, 3}
  /\ requests = <<>>
  /\ clock = 0
  /\ pipe_pc = "idle"
  /\ pipe_symbols = <<>>
  /\ fetch_result = NoFetch
  /\ radar_candidates_struct = <<>>
  /\ radar_output = NoRadarOutput
  /\ pipeline_state = PipelineStateInit
  /\ result_state = ResultStateInit

\* main.py lines 183-253: the request arrives with its symbol list
PipeStart ==
  /\ pipe_pc = "idle"
  /\ \E symbols \in SymbolLists : pipe_symbols' = symbols
  /\ pipeline_state' = [pipeline_status |-> "RUNNING", start_time |-> Str(Strftime(utc_today)),
                        end_time |-> None, modules |-> <<>>]
  /\ pipe_pc' = "fetch"
  /\ UNCHANGED <<requests, clock, tz_offset, fetch_result, radar_candidates_struct, radar_output, result_state>>
  /\ UNCHANGED <<radarVars, indVars, utc_today>>

\* main.py lines 255-303: the download answers for every symbol
PipeFetch ==
  /\ pipe_pc = "fetch"
  /\ \E answer \in [Range(pipe_symbols) -> PipeSeries] :
       fetch_result' = run_fetch_engine(pipe_symbols,
                         [sym \in Range(pipe_symbols) |-> yahoo_rows(answer[sym])], utc_today)
  /\ pipe_pc' = "indicator"
  /\ UNCHANGED <<requests, clock, tz_offset, pipe_symbols, radar_candidates_struct, radar_output, pipeline_state, result_state>>
  /\ UNCHANGED <<radarVars, indVars, utc_today>>

\* main.py lines 308-344
PipeIndicators ==
  /\ pipe_pc = "indicator"
  /\ radar_candidates_struct' =
       run_indicator_engine(fetch_result.keys,
                            Dict(build_candles_by_symbol(fetch_result, tz_offset)),
                            <<>>, utc_today).radar_candidates
  /\ pipe_pc' = "radar"
  /\ UNCHANGED <<requests, clock, tz_offset, pipe_symbols, fetch_result, radar_output, pipeline_state, result_state>>
  /\ UNCHANGED <<radarVars, indVars, utc_today>>

\* main.py lines 349-456
PipeRadar ==
  /\ pipe_pc = "radar"
  /\ radar_output' =
       run_radar_engine(radar_candidates_flat_of(radar_candidates_struct), regime_info, RadarConfig)
  /\ pipe_pc' = "finish"
  /\ UNCHANGED <<requests, clock, tz_offset, pipe_symbols, fetch_result, radar_candidates_struct, pipeline_state, result_state>>
  /\ UNCHANGED <<radarVars, indVars, utc_today>>

ModuleNames ==
  <<"snapshot_service", "fetch_engine", "indicator_engine", "regime_engine", "radar_engine",
    "repair_engine", "core10_engine", "tuning_engine", "results_aggregator", "state_manager">>

\* main.py lines 497-523
core10_of(radar_picks) ==
  [rank \in 1..Min2(Len(radar_picks), 10) |->
     [symbol |-> radar_picks[rank].symbol, rank_today |-> rank,
      adj_score |-> radar_picks[rank].adj_score]]

\* main.py lines 458-537
PipeFinish ==
  /\ pipe_pc = "finish"
  /\ pipeline_state' = [pipeline_state EXCEPT !.pipeline_status = "COMPLETED",
                          !.end_time = Str(Strftime(utc_today)), !.modules = ModuleNames]
  /\ result_state' = [result_ready |-> TRUE, last_run |-> Str(Strftime(utc_today)),
                      radar |-> radar_output.radar, radar_debug |-> radar_output.radar_debug,
                      radar_summary |-> radar_output.radar_summary,
                      core10 |-> core10_of(radar_output.radar)]
  /\ pipe_pc' = "done"
  /\ UNCHANGED <<requests, clock, tz_offset, pipe_symbols, fetch_result, radar_candidates_struct, radar_output>>
  /\ UNCHANGED <<radarVars, indVars, utc_today>>

NextPipe == PipeStart \/ PipeFetch \/ PipeIndicators \/ PipeRadar \/ PipeFinish

SpecPipe == InitPipe /\ [][NextPipe]_vars

\* ------------------------------------------------------------------------
\* One symbol from its bars to its score: the series grows bar by bar, then
\* the indicator engine, the scoring engine and the aggregation run on it.
\* ------------------------------------------------------------------------
\* indicator_engine.py lines 525-549: run_indicator_engine on the candles of
\* the one symbol (main.py lines 308-344)
ChainIndicators ==
  /\ ~ind_called
  /\ pipe_pc = "idle"
  /\ ind_called' = TRUE
  /\ ind_result' = compute_indicators_for_symbol(S_A, ind_candles, ind_cfg, utc_today)
  /\ radar_candidates_struct' =
       run_indicator_engine(<<S_A>>, Dict(S_A :> ind_candles), ind_cfg,
                            utc_today).radar_candidates
  /\ pipe_pc' = "radar"
  /\ UNCHANGED <<ind_candles, ind_feed, ind_cfg, probe>>
  /\ UNCHANGED <<requests, clock, tz_offset, pipe_symbols, fetch_result, radar_output, pipeline_state, result_state>>
  /\ UNCHANGED <<radarVars, utc_today>>

NextChain == AppendBar \/ ChainIndicators \/ PipeRadar \/ PipeFinish

SpecChain == InitInd /\ [][NextChain]_vars

\* ------------------------------------------------------------------------
\* The risk colour of an ATR%, under the boundaries of a configuration
\* ------------------------------------------------------------------------
\* the configurations: none; a percent and a text that is no number; two
\* pairs in the wrong order; a negative and a zero green boundary; percents
\* as texts; fractions; 1 and 5 percent; a yellow boundary alone; a None
\* value; the text "nan"
ColorConfigs ==
  IndConfigs \cup
  { [RISK_ATR_GREEN_MAX |-> Num((5 * U) \div 100), RISK_ATR_YELLOW_MAX |-> Num((4 * U) \div 100)],
    [RISK_ATR_GREEN_MAX |-> Num((8 * U) \div 100), RISK_ATR_YELLOW_MAX |-> Num((5 * U) \div 100)],
    [RISK_ATR_GREEN_MAX |-> Num(-((1 * U) \div 100))],
    [RISK_ATR_GREEN_MAX |-> Num(0), RISK_ATR_YELLOW_MAX |-> Num((3 * U) \div 100)],
    [RISK_ATR_GREEN_MAX |-> Str(<<51>>), RISK_ATR_YELLOW_MAX |-> Str(<<54>>)],
    [RISK_ATR_GREEN_MAX |-> Num((2 * U) \div 100), RISK_ATR_YELLOW_MAX |-> Num((4 * U) \div 100)],
    [RISK_ATR_GREEN_MAX |-> Num(U), RISK_ATR_YELLOW_MAX |-> Num(5 * U)],
    [RISK_ATR_YELLOW_MAX |-> Num((50 * U) \div 100)],
    [RISK_ATR_GREEN_MAX |-> None],
    [RISK_ATR_GREEN_MAX |-> Str(S_NAN)] }

\* the ATR% values: absent, texts ("abc", "0.02"), negative, and fractions
\* at and next to every boundary
AtrInputs ==
  {None, Str(S_abc), Str(<<48, 46, 48, 50>>)} \cup
  {Num(x) : x \in {-U, -3, -1, 0, 1, 2, 3, 4, 5, 6, 7, 8, 9, 10, 11, 12, 13, 14, 15, 16,
                   17, 18, 19, 24, 25, 27, 28, 149, 150, 151, U, 5 * U}}

InitColor ==
  /\ RadarIdle
  /\ radar_result = EmptyResult
  /\ ind_candles = NoCandles
  /\ ind_feed = [price |-> "flat", vol |-> "none", stamp |-> "none"]
  /\ ind_cfg \in ColorConfigs
  /\ ind_called = FALSE
  /\ ind_result = Raised(<<>>, "")
  /\ probe = NoProbe
  /\ utc_today = 1
  /\ PipeIdle

\* one call of _macro_color_from_atr
ProbeColor ==
  /\ probe = NoProbe
  /\ \E atr \in AtrInputs :
       probe' = [fn |-> "_macro_color_from_atr", k |-> 0, n |-> 0, arg |-> atr,
                 out |-> Str(_macro_color_from_atr(atr, ind_cfg))]
  /\ UNCHANGED <<ind_candles, ind_feed, ind_cfg, ind_called, ind_result>>
  /\ UNCHANGED <<radarVars, utc_today, pipeVars>>

NextColor == ProbeColor

SpecColor == InitColor /\ [][NextColor]_vars

\* ------------------------------------------------------------------------
\* Overlapping /runMorningPipeline requests: every request runs
\* simulate_pipeline_run in its own thread on the shared pipeline_state and
\* result_state; a step is the code between two accesses of the globals
\* ------------------------------------------------------------------------
MaxRequests == 2
Requests == 1..MaxRequests

\* what the download answers a request with
RunSeries ==
  { [n |-> 30, price |-> "rise", vol |-> "flat", last |-> 3],
    [n |-> 5, price |-> "rise", vol |-> "flat", last |-> 3] }

\* main.py lines 62-64: datetime.utcnow().isoformat() + "Z"
now_iso(today, clk) == Str(Strftime(today) \o <<84, 48, 48, 58, 48, 48, 58>> \o TwoDigits(clk) \o <<90>>)

\* main.py lines 238-246, 427-439, 471-478: the module records a run collects
modules_of(at) == [i \in 1..Len(ModuleNames) |-> [name |-> ModuleNames[i], status |-> "OK", start_time |-> at]]

\* main.py lines 308-419: the stages after the download
stages_after_fetch(fetched, tz, today) ==
  run_radar_engine(
    radar_candidates_flat_of(
      run_indicator_engine(fetched.keys, Dict(build_candles_by_symbol(fetched, tz)),
                           <<>>, today).radar_candidates),
    regime_info, RadarConfig)

InitRuns ==
  /\ RadarIdle
  /\ radar_result = EmptyResult
  /\ IndIdle
  /\ utc_today = 4
  /\ tz_offset = 0
  /\ pipe_pc = "idle"
  /\ pipe_symbols = <<>>
  /\ fetch_result = NoFetch
  /\ radar_candidates_struct = <<>>
  /\ radar_output = NoRadarOutput
  /\ pipeline_state = PipelineStateInit
  /\ result_state = ResultStateInit
  /\ requests = [r \in Requests |-> NoRequest]
  /\ clock = 0

RunsUnchanged == UNCHANGED <<radarVars, indVars, utc_today, tz_offset, pipe_pc, pipe_symbols, fetch_result, radar_candidates_struct, radar_output>>

\* main.py lines 549-560, 183-226: the request arrives, the run takes its
\* start time and rebinds pipeline_state to a fresh RUNNING record
ReqStart(r) ==
  /\ requests[r].pc = "idle"
  /\ requests' = [requests EXCEPT ![r] = [@ EXCEPT !.pc = "stages", !.symbols = <<S_A>>,
                                                   !.start_time = now_iso(utc_today, clock)]]
  /\ pipeline_state' = [pipeline_status |-> "RUNNING", start_time |-> now_iso(utc_today, clock),
                        end_time |-> None, modules |-> <<>>]
  /\ clock' = clock + 1
  /\ UNCHANGED result_state
  /\ RunsUnchanged

\* main.py lines 228-487: the stages run on the run's locals
ReqStages(r) ==
  /\ requests[r].pc = "stages"
  /\ \E series \in RunSeries :
       requests' = [requests EXCEPT ![r] =
         [@ EXCEPT !.pc = "status", !.modules = modules_of(now_iso(utc_today, clock)),
                   !.radar_output =
                     stages_after_fetch(run_fetch_engine(requests[r].symbols,
                                                      [sym \in Range(requests[r].symbols) |-> yahoo_rows(series)],
                                                      utc_today),
                                     tz_offset, utc_today)]]
  /\ clock' = clock + 1
  /\ UNCHANGED <<pipeline_state, result_state>>
  /\ RunsUnchanged

\* main.py lines 248-255, 25-54, 562-572: a stage raises (log_write cannot
\* append to the day's log file) and the handler answers with the error
ReqRaise(r) ==
  /\ requests[r].pc = "stages"
  /\ requests' = [requests EXCEPT ![r] = [@ EXCEPT !.pc = "returned",
                                                   !.response = [code |-> 500, status |-> "error"]]]
  /\ UNCHANGED <<pipeline_state, result_state, clock>>
  /\ RunsUnchanged

\* main.py lines 489-490
ReqSetStatus(r) ==
  /\ requests[r].pc = "status"
  /\ requests' = [requests EXCEPT ![r] = [@ EXCEPT !.pc = "end_time",
                                                   !.end_time = now_iso(utc_today, clock)]]
  /\ pipeline_state' = [pipeline_state EXCEPT !.pipeline_status = "COMPLETED"]
  /\ clock' = clock + 1
  /\ UNCHANGED result_state
  /\ RunsUnchanged

\* main.py line 491
ReqSetEndTime(r) ==
  /\ requests[r].pc = "end_time"
  /\ requests' = [requests EXCEPT ![r].pc = "modules"]
  /\ pipeline_state' = [pipeline_state EXCEPT !.end_time = requests[r].end_time]
  /\ UNCHANGED <<result_state, clock>>
  /\ RunsUnchanged

\* main.py line 492
ReqSetModules(r) ==
  /\ requests[r].pc = "modules"
  /\ requests' = [requests EXCEPT ![r].pc = "result"]
  /\ pipeline_state' = [pipeline_state EXCEPT !.modules = requests[r].modules]
  /\ UNCHANGED <<result_state, clock>>
  /\ RunsUnchanged

\* main.py lines 497-537
ReqResult(r) ==
  /\ requests[r].pc = "result"
  /\ requests' = [requests EXCEPT ![r].pc = "respond"]
  /\ result_state' = [result_ready |-> TRUE, last_run |-> requests[r].end_time,
                      radar |-> requests[r].radar_output.radar,
                      radar_debug |-> requests[r].radar_output.radar_debug,
                      radar_summary |-> requests[r].radar_output.radar_summary,
                      core10 |-> core10_of(requests[r].radar_output.radar)]
  /\ UNCHANGED <<pipeline_state, clock>>
  /\ RunsUnchanged

\* main.py lines 574-580
ReqRespond(r) ==
  /\ requests[r].pc = "respond"
  /\ requests' = [requests EXCEPT ![r] = [@ EXCEPT !.pc = "returned",
       !.response = [code |-> 200, status |-> "ok",
                     pipeline_status |-> pipeline_state.pipeline_status,
                     start_time |-> pipeline_state.start_time,
                     end_time |-> pipeline_state.end_time]]]
  /\ UNCHANGED <<pipeline_state, result_state, clock>>
  /\ RunsUnchanged

NextRuns ==
  \E r \in Requests :
    \/ ReqStart(r)
    \/ ReqStages(r)
    \/ ReqRaise(r)
    \/ ReqSetStatus(r)
    \/ ReqSetEndTime(r)
    \/ ReqSetModules(r)
    \/ ReqResult(r)
    \/ ReqRespond(r)

SpecRuns == InitRuns /\ [][NextRuns]_vars

\* ------------------------------------------------------------------------
\* run_indicator_engine called with and without a candles_by_symbol entry
\* ------------------------------------------------------------------------
\* the candles_by_symbol entry of the context: none, an empty map, the
\* series for A, and the series for A beside an empty entry for B
EngineContexts == {"absent", "empty", "A", "AB"}

candles_by_symbol_of(shape, candles) ==
  CASE shape = "absent" -> None
    [] shape = "empty"  -> Dict(<<>>)
    [] shape = "A"      -> Dict(S_A :> candles)
    [] OTHER            -> Dict((S_A :> candles) @@ (S_B :> <<>>))

InitEngine ==
  /\ RadarIdle
  /\ radar_result = EmptyResult
  /\ ind_candles = NoCandles
  /\ ind_feed \in {f \in IndFeeds : f.price \in {"rise", "zigzag"} /\ f.vol = "flat" /\ f.stamp = "num"}
  /\ ind_cfg = <<>>
  /\ ind_called = FALSE
  /\ ind_result = Raised(<<>>, "")
  /\ probe = NoProbe
  /\ utc_today = MaxBars
  /\ PipeIdle

\* one call of run_indicator_engine
ProbeEngine ==
  /\ probe = NoProbe
  /\ \E symbols \in SymbolLists, shape \in EngineContexts :
       probe' = [fn |-> "run_indicator_engine", k |-> 0, n |-> 0,
                 arg |-> [symbols |-> symbols,
                          candles_by_symbol |-> candles_by_symbol_of(shape, ind_candles)],
                 out |-> run_indicator_engine(symbols, candles_by_symbol_of(shape, ind_candles),
                                              ind_cfg, utc_today)]
  /\ UNCHANGED <<ind_candles, ind_feed, ind_cfg, ind_called, ind_result>>
  /\ UNCHANGED <<radarVars, utc_today, pipeVars>>

NextEngine == AppendBar \/ ProbeEngine

SpecEngine == InitEngine /\ [][NextEngine]_vars

\* ------------------------------------------------------------------------
\* Properties of the scoring engine
\* ------------------------------------------------------------------------
Debug == radar_result.candidates_debug
Picks == radar_result.picks
RowIdx == DOMAIN radar_candidates

\* what a row says about itself, read off the raw fields
RowHasDate(row) ==
  LET d == Get(row, "date") IN d.t = "date" \/ (d.t = "str" /\ d.s # <<>>)
RowDate(row) == _normalize_date_to_str(Get(row, "date"))
RowHasSymbol(row) ==
  \E k \in {"symbol", "ticker", "code"} : Get(row, k).t = "str" /\ Get(row, k).s # <<>>

OutSymbols == {Debug[i].symbol : i \in DOMAIN Debug} \cup {Picks[i].symbol : i \in DOMAIN Picks}
CountOut(lst, sym) == Cardinality({i \in DOMAIN lst : lst[i].symbol = sym})

\* the rows of the latest date that are liquid enough
Liquid(sym) ==
  {i \in RowIdx : /\ symbol_of(radar_candidates[i]) = sym
                  /\ RowHasDate(radar_candidates[i])
                  /\ RowDate(radar_candidates[i]) = radar_result.latest_date
                  /\ ~FLess(volume_of(radar_candidates[i]), liq_min_of(config))}

\* C1: no row whose volume is below the configured floor reaches picks or
\* candidates_debug, and every latest-date row at or above the floor does: per
\* symbol, the output holds exactly as many rows as the input has liquid ones.
C1_LiquidityFilter ==
  radar_called =>
    /\ \A i \in DOMAIN Debug : ~FLess(Debug[i].volume, liq_min_of(config))
    /\ \A i \in DOMAIN Picks : ~FLess(Picks[i].volume, liq_min_of(config))
    /\ \A i \in RowIdx :
         LET sym == symbol_of(radar_candidates[i])
         IN RowHasSymbol(radar_candidates[i]) =>
              /\ CountOut(Debug, sym) = Cardinality(Liquid(sym))
              /\ CountOut(Picks, sym) = Cardinality(Liquid(sym))
    /\ \A sym \in OutSymbols : Liquid(sym) # {}

\* two rows of the latest date, one below and one exactly at the floor: only
\* the second is in the output
C1_Witness ==
  /\ radar_called
  /\ Len(radar_candidates) = 2
  /\ RowDate(radar_candidates[1]) = RowDate(radar_candidates[2])
  /\ FLess(volume_of(radar_candidates[1]), liq_min_of(config))
  /\ volume_of(radar_candidates[2]) = liq_min_of(config)
  /\ symbol_of(radar_candidates[1]) # symbol_of(radar_candidates[2])
  /\ Len(Picks) = 1 /\ Len(Debug) = 1
  /\ Picks[1].symbol = symbol_of(radar_candidates[2])

\* C2: latest_date is the greatest date any row carries, every output row and
\* the summary carry it, and every output row is the score of an input row
\* of that date.
C2_LatestDateOnly ==
  radar_called =>
    LET L == radar_result.latest_date
    IN /\ (\E i \in RowIdx : RowHasDate(radar_candidates[i])) =>
            /\ \E i \in RowIdx : RowDate(radar_candidates[i]) = L
            /\ \A i \in RowIdx : ~StrGT(RowDate(radar_candidates[i]), L)
       /\ radar_result.summary.latest = L
       /\ \A i \in DOMAIN Debug :
            /\ Debug[i].date = L
            /\ \E j \in RowIdx :
                 /\ RowDate(radar_candidates[j]) = L
                 /\ symbol_of(radar_candidates[j]) = Debug[i].symbol
                 /\ volume_of(radar_candidates[j]) = Debug[i].volume
       /\ \A i \in DOMAIN Picks :
            /\ Picks[i].date = L
            /\ \E j \in RowIdx :
                 /\ RowDate(radar_candidates[j]) = L
                 /\ symbol_of(radar_candidates[j]) = Picks[i].symbol
                 /\ volume_of(radar_candidates[j]) = Picks[i].volume

\* a liquid row of an older date is dropped while a later one is scored
C2_Witness ==
  /\ radar_called
  /\ Len(radar_candidates) = 2
  /\ StrGT(RowDate(radar_candidates[2]), RowDate(radar_candidates[1]))
  /\ RowDate(radar_candidates[1]) # <<>>
  /\ ~FLess(volume_of(radar_candidates[1]), liq_min_of(config))
  /\ symbol_of(radar_candidates[1]) # symbol_of(radar_candidates[2])
  /\ Len(Debug) = 1
  /\ Debug[1].symbol = symbol_of(radar_candidates[2])
  /\ Debug[1].date = RowDate(radar_candidates[2])

SectorCapOn == Truthy(GetD(config, "RADAR_USE_SECTOR_CAP", Bool(FALSE)))
SectorCapN == GetD(config, "RADAR_SECTOR_CAP", Num(2 * U)).v \div U
\* the sectors the input gives to the symbol of a pick
SectorsOfPick(p) ==
  {Get(radar_candidates[j], "sector") :
     j \in {k \in RowIdx : /\ symbol_of(radar_candidates[k]) = p.symbol
                           /\ RowDate(radar_candidates[k]) = radar_result.latest_date}}
InputSectors == {Get(radar_candidates[j], "sector") : j \in RowIdx}

\* C4: with RADAR_USE_SECTOR_CAP true, picks holds at most RADAR_SECTOR_CAP
\* rows of any one sector; with it false, picks is the whole sorted list.
C4_SectorCap ==
  radar_called =>
    IF SectorCapOn
    THEN \A sec \in InputSectors :
           Cardinality({i \in DOMAIN Picks : SectorsOfPick(Picks[i]) = {sec}}) <= SectorCapN
    ELSE Len(Picks) = Len(Debug)

\* C5: candidates_debug is ordered non-increasing by adj_score.
C5_DebugSorted ==
  radar_called =>
    \A i \in DOMAIN Debug :
      i < Len(Debug) => Debug[i].adj_score >= Debug[i + 1].adj_score

\* three rows handed over with the worst first come back best first, the last
\* one with a negative adj_score
C5_Witness ==
  /\ radar_called
  /\ Len(Debug) = 3
  /\ Debug[1].adj_score > Debug[3].adj_score
  /\ Debug[3].adj_score < 0
  /\ Debug[3].symbol = symbol_of(radar_candidates[1])
  /\ Debug[1].symbol # Debug[3].symbol

\* the weighted sum of the five sub-scores, in hundredths
WeightedSum(d) ==
  30 * d.s_mom + 20 * d.s_vol + 25 * d.s_trend + 15 * d.s_breakout + 10 * d.s_rs

\* C6: every sub-score and base_score lie in [0,100] and base_score is the
\* clamped weighted sum 0.30/0.20/0.25/0.15/0.10 of the sub-scores.
C6_BaseScore ==
  radar_called =>
    \A i \in DOMAIN Debug :
      LET d == Debug[i]
      IN /\ \A x \in {d.s_mom, d.s_vol, d.s_trend, d.s_breakout, d.s_rs, d.base_score} :
              0 <= x /\ x <= 100 * U
         /\ WeightedSum(d) % 100 = 0
         /\ d.base_score =
              (IF WeightedSum(d) < 0 THEN 0
               ELSE IF WeightedSum(d) > 100 * 100 * U THEN 100 * U
               ELSE WeightedSum(d) \div 100)

\* an extreme momentum is clamped to 100 while the features that are absent
\* score the neutral 50
C6_Witness ==
  /\ radar_called
  /\ Len(Debug) = 1
  /\ Get(radar_candidates[1], "mom_5d") = Num(3000)
  /\ "vol_z20" \notin DOMAIN radar_candidates[1]
  /\ Debug[1].s_mom = 100 * U
  /\ Debug[1].s_vol = 50 * U
  /\ Debug[1].base_score > 50 * U

\* C7: adj_score = base_score * macro_mult - atr_penalty with no clamp, and
\* atr_penalty is 0 for an absent or non-positive atr_pct and
\* min(atr_pct / 0.15, 1) * 10 otherwise, so within [0,10].
C7_AdjScore ==
  radar_called =>
    \A i \in DOMAIN Debug :
      LET d == Debug[i]
      IN /\ d.adj_score = d.base_score * d.macro_mult - d.atr_penalty * U
         /\ 0 <= d.atr_penalty /\ d.atr_penalty <= 10 * U
         /\ IF d.atr_pct.t # "num" \/ d.atr_pct.v <= 0
            THEN d.atr_penalty = 0
            ELSE 15 * d.atr_penalty = Min2(1000 * d.atr_pct.v, 150 * U)

\* a row whose penalty outweighs its scaled base score keeps a negative
\* adj_score
C7_Witness ==
  /\ radar_called
  /\ Len(Debug) = 1
  /\ Debug[1].atr_penalty = 10 * U
  /\ Debug[1].base_score > 0
  /\ Debug[1].adj_score < 0

\* C8: with no row, or no row carrying a date, the result is the empty one:
\* latest "", no picks, no debug rows, candidates 0 and picked 0.
C8_EmptyResult ==
  (radar_called /\ \A i \in RowIdx : ~RowHasDate(radar_candidates[i])) =>
    /\ radar_result.latest_date = <<>>
    /\ radar_result.summary.latest = <<>>
    /\ Picks = <<>>
    /\ Debug = <<>>
    /\ radar_result.summary.candidates = 0
    /\ radar_result.summary.picked = 0

\* rows were passed, none of them dated, and the call returned the empty
\* result
C8_Witness ==
  /\ radar_called
  /\ Len(radar_candidates) = 2
  /\ \A i \in RowIdx : ~RowHasDate(radar_candidates[i]) /\ RowHasSymbol(radar_candidates[i])
  /\ radar_result.summary.candidates = 0
  /\ radar_result.latest_date = <<>>

\* ------------------------------------------------------------------------
\* Properties of the indicator engine
\* ------------------------------------------------------------------------
IndBars == Len(ind_candles.c)
Absent(key) == ind_result.indicators[key] = None
Present(key) == ind_result.indicators[key] # None

\* the features whose history is too short for a series of n bars are absent
ShortHistoryAbsent(n) ==
  /\ n < 16 => Absent("adx14")
  /\ n < 20 => Absent("ema20") /\ Absent("cci20") /\ Absent("vol_trend")
  /\ n < 21 => Absent("mom20") /\ Absent("vol_z20")
  /\ n < 26 => Absent("macd")
  /\ n < 50 => Absent("ema50")

\* C10: compute_indicators_for_symbol raises exactly when the series has
\* fewer than 15 bars; from 15 bars on it returns a snapshot with the bar
\* fields, and every feature whose own minimum history is not met is absent.
C10_RaiseIffShort ==
  ind_called =>
    /\ ind_result.raised <=> IndBars < 15
    /\ ~ind_result.raised =>
         /\ ShortHistoryAbsent(IndBars)
         /\ Present("close") /\ Present("high") /\ Present("low")

\* a snapshot of exactly 15 bars: no error, RSI there, 20-day momentum absent
C10_Witness ==
  /\ ind_called
  /\ IndBars = 15
  /\ ~ind_result.raised
  /\ Present("rsi14")
  /\ Absent("mom20")
  /\ Absent("adx14")

\* ------------------------------------------------------------------------
\* Properties of the pipeline
\* ------------------------------------------------------------------------
\* the symbols whose candidate row carries an error
FailedSymbols ==
  {radar_candidates_struct[i].symbol :
     i \in {j \in 1..Len(radar_candidates_struct) : "error" \in DOMAIN radar_candidates_struct[j]}}

RECURSIVE SeqWithout(_, _)
SeqWithout(seq, S) ==
  IF seq = <<>> THEN <<>>
  ELSE (IF Head(seq) \in S THEN <<>> ELSE <<Head(seq)>>) \o SeqWithout(Tail(seq), S)

\* what the download had returned, had the symbols of S not been requested
fetch_without(fetched, S) ==
  fetch_return(SeqWithout(fetched.symbols, S), SeqWithout(fetched.keys, S),
               fetched.data, utc_today)

\* the stages after the download
radar_of_fetch(fetched) ==
  run_radar_engine(
    radar_candidates_flat_of(
      run_indicator_engine(fetched.keys, Dict(build_candles_by_symbol(fetched, tz_offset)),
                           <<>>, utc_today).radar_candidates),
    regime_info, RadarConfig)

SameRadar(out, base) ==
  /\ out.radar = base.radar
  /\ out.radar_debug = base.radar_debug
  /\ out.radar_summary.latest = base.radar_summary.latest

\* C3: a symbol whose indicator computation fails leaves no trace downstream:
\* picks, candidates_debug and summary.latest of the run are those of the run
\* without the failed symbols.
C3_FailedSymbolAbsent ==
  pipe_pc \in {"finish", "done"} =>
    SameRadar(radar_output, radar_of_fetch(fetch_without(fetch_result, FailedSymbols)))

\* ------------------------------------------------------------------------
\* Properties of the coercion of the numeric fields
\* ------------------------------------------------------------------------
RowWithout(row, f) == [k \in DOMAIN row \ {f} |-> row[k]]

\* C13: a row with a malformed numeric field (a text that is no number, the
\* empty text included) is scored exactly as the same row without that field:
\* the call returns the same picks, debug rows and summary.
C13_MalformedAsAbsent ==
  (radar_called /\ Len(radar_candidates) = 1) =>
    \A f \in NumericFields :
      (f \in DOMAIN radar_candidates[1] /\ radar_candidates[1][f] \in MalformedTexts) =>
        radar_result =
          compute_radar_from_candidates(<<RowWithout(radar_candidates[1], f)>>,
                                        macro_trend, macro_mults, config)

\* C14: a row whose atr_pct is the percent text 'N%' (decimal comma or point)
\* is scored as the same row with the float N/100: same atr_pct, atr_penalty
\* and adj_score, hence the same result of the call.
C14_PercentText ==
  (radar_called /\ Len(radar_candidates) = 1) =>
    \A p \in PercentTexts :
      Get(radar_candidates[1], "atr_pct") = p[1] =>
        /\ Len(Debug) = 1
        /\ Debug[1].atr_pct = Num(p[2])
        /\ 15 * Debug[1].atr_penalty = Min2(1000 * p[2], 150 * U)
        /\ radar_result =
             compute_radar_from_candidates(
               <<[radar_candidates[1] EXCEPT !["atr_pct"] = Num(p[2])]>>,
               macro_trend, macro_mults, config)

\* the row with atr_pct = '8%' was scored with the penalty of 0.08
C14_Witness ==
  /\ radar_called
  /\ Len(radar_candidates) = 1
  /\ Get(radar_candidates[1], "atr_pct") = Str(<<56, 37>>)
  /\ Len(Debug) = 1
  /\ Debug[1].atr_pct = Num((8 * U) \div 100)
  /\ 3 * Debug[1].atr_penalty = 16 * U

\* ------------------------------------------------------------------------
\* Properties of the macro multiplier
\* ------------------------------------------------------------------------
\* the label as the caller wrote it, uppercased; no key for a missing label
LabelWritten == IF macro_trend.t = "str" THEN Upper(macro_trend.s) ELSE <<>>

\* the DEFAULT entry of the table, 1.0 for a table without one
DefaultEntry == IF S_DEFAULT \in DOMAIN macro_mults THEN macro_mults[S_DEFAULT] ELSE 1 * U

AllRowsUse(mult) ==
  /\ radar_result.summary.macro_mult = mult
  /\ \A i \in DOMAIN Debug : Debug[i].macro_mult = mult
  /\ \A i \in DOMAIN Picks : Picks[i].macro_mult = mult

\* C12 as stated: every row and the summary use the table entry of the
\* uppercased label when the table has it, and the DEFAULT entry for every
\* label the table does not contain, the empty and the missing label included.
C12_MacroMultLookup ==
  radar_called =>
    AllRowsUse(IF LabelWritten \in DOMAIN macro_mults THEN macro_mults[LabelWritten]
               ELSE DefaultEntry)

\* an empty or missing label is read as YELLOW
LabelRead == IF LabelWritten = <<>> THEN S_YELLOW ELSE LabelWritten

\* C12 amended: an empty or missing label is first read as YELLOW; every row
\* and the summary use the table entry of the uppercased label when the table
\* has it, and otherwise the DEFAULT entry (1.0 for a table without one).
C12_MacroMultYellowFallback ==
  radar_called =>
    /\ radar_result.summary.macro_trend = LabelRead
    /\ AllRowsUse(IF LabelRead \in DOMAIN macro_mults THEN macro_mults[LabelRead]
                  ELSE DefaultEntry)

\* two rows scored under an empty label with a table whose YELLOW and DEFAULT
\* entries differ
C12_Witness ==
  /\ radar_called
  /\ macro_trend = Str(<<>>)
  /\ S_YELLOW \in DOMAIN macro_mults /\ S_DEFAULT \in DOMAIN macro_mults
  /\ macro_mults[S_YELLOW] # macro_mults[S_DEFAULT]
  /\ Len(Debug) = 2
  /\ Debug[1].macro_mult = macro_mults[S_YELLOW]

\* ------------------------------------------------------------------------
\* Properties of one symbol's chain
\* ------------------------------------------------------------------------
\* the row the indicator engine appended for the symbol
ChainRow == radar_candidates_struct[1]
ChainField(key) == Get(ChainRow.indicators, key)
ChainRan == pipe_pc # "idle"

SnapshotKeys ==
  {"atr_pct", "mom5", "mom20", "vol_z20", "rsi14", "ema20", "ema50", "adx14", "macd",
   "cci20", "vol_trend", "risk_color", "close", "high", "low", "volume"}

\* C11 as stated: for a series of 5 bars the ATR computation fails, RSI, ADX,
\* CCI and EMA50 are absent, and the row of the symbol still carries close,
\* high, low and volume (no momentum field has its history at 5 bars).
C11_FiveBarsPartialSnapshot ==
  (ChainRan /\ IndBars = 5) =>
    /\ ind_result.raised
    /\ \A key \in {"rsi14", "adx14", "cci20", "ema50", "mom5", "mom20"} :
         ChainField(key) = None
    /\ \A key \in {"close", "high", "low"} : ChainField(key) # None
    /\ ind_feed.vol # "none" => ChainField("volume") # None

\* C11 amended: for a series of 5 bars compute_indicators_for_symbol raises
\* the ATR error and yields no snapshot; run_indicator_engine appends one
\* row for the symbol that carries the error text and an empty indicators
\* map, so that every field, the bar fields included, is absent.
C11_FiveBarsNoSnapshot ==
  (ChainRan /\ IndBars = 5) =>
    /\ ind_result.raised
    /\ ind_result.error = "ATR verisi yetersiz"
    /\ Len(radar_candidates_struct) = 1
    /\ ChainRow.symbol = S_A
    /\ ChainRow.error = "ATR verisi yetersiz"
    /\ ChainRow.date = Strftime(utc_today)
    /\ DOMAIN ChainRow.indicators = {}
    /\ \A key \in SnapshotKeys : ChainField(key) = None

\* five rising bars with their volumes went through the indicator engine
C11_Witness ==
  /\ pipe_pc = "radar"
  /\ IndBars = 5
  /\ ind_feed.price = "rise" /\ ind_feed.vol = "flat"
  /\ Len(ind_candles.v) = 5
  /\ ChainRow.error = "ATR verisi yetersiz"

\* ------------------------------------------------------------------------
\* Properties of the helpers of the indicator engine
\* ------------------------------------------------------------------------
\* the j-th of the 14 price changes that end at index k
Delta(c, k, j) == c[k - 14 + j + 1] - c[k - 14 + j]

\* the sum of the rises (sign 1) or of the falls (sign -1) among the first j
RECURSIVE ChangeSum(_, _, _, _)
ChangeSum(c, k, j, sign) ==
  IF j = 0 THEN 0
  ELSE ChangeSum(c, k, j - 1, sign) + Max2(sign * Delta(c, k, j), 0)

\* the rounding the fixed-point arithmetic may add to an RSI: 0.1 point
RsiTol == U \div 10

\* r is the RSI of total gain G and total loss L: 100 G / (G + L) is
\* 100 - 100 / (1 + avgGain / avgLoss)
RsiAsClaimed(r, G, L) ==
  /\ 0 <= r /\ r <= 100 * U
  /\ (L = 0 /\ G > 0) => r = 100 * U
  /\ (L = 0 /\ G = 0) => r = 50 * U
  /\ L > 0 => Abs(r - (100 * U * G) \div (G + L)) <= RsiTol

\* C15: _compute_rsi14 is absent exactly for k < 14 or k past the end;
\* otherwise it is within [0,100], 100 without a loss but with a gain, 50
\* without either, and 100 - 100/(1 + avgGain/avgLoss) else.
C15_Rsi14 ==
  probe.fn = "_compute_rsi14" =>
    /\ probe.out = None <=> (probe.k < 14 \/ probe.k >= Len(ind_candles.c))
    /\ probe.out # None =>
         RsiAsClaimed(probe.out.v, ChangeSum(ind_candles.c, probe.k, 14, 1),
                      ChangeSum(ind_candles.c, probe.k, 14, -1))

\* gains of 4 and losses of 2 alternate: an RSI of two thirds of 100, at an
\* index inside the series
C15_Witness ==
  /\ probe.fn = "_compute_rsi14"
  /\ ind_feed.price = "surge"
  /\ probe.k = 20 /\ Len(ind_candles.c) = 30
  /\ probe.out # None
  /\ probe.out.v > 66 * U /\ probe.out.v < 67 * U

RECURSIVE SeqSum(_)
SeqSum(q) == IF q = <<>> THEN 0 ELSE Head(q) + SeqSum(Tail(q))

\* out[i] follows from out[i-1] by the weight a = 2/(n+1), up to the rounding
\* of one fixed-point division: (n+1) ema[i] = 2 series[i] + (n-1) ema[i-1]
EmaStep(c, out, n, i) ==
  /\ out[i] # None /\ out[i - 1] # None
  /\ Abs((n + 1) * out[i].v - (2 * c[i] + (n - 1) * out[i - 1].v)) <= n

\* C16: for a series of at least n values _ema_series is absent below index
\* n-1, the mean of the first n values at index n-1 and follows the recurrence
\* with a = 2/(n+1) above it; for a shorter series every entry is absent.
\* (Index i of the code is position i+1 here.)
C16_EmaSeries ==
  probe.fn = "_ema_series" =>
    LET c == ind_candles.c
        n == probe.n
        out == probe.out
    IN /\ Len(out) = Len(c)
       /\ Len(c) < n => \A i \in 1..Len(c) : out[i] = None
       /\ Len(c) >= n =>
            /\ \A i \in 1..(n - 1) : out[i] = None
            /\ out[n] # None
            /\ Abs(n * out[n].v - SeqSum(SubSeq(c, 1, n))) < n
            /\ \A i \in (n + 1)..Len(c) : EmaStep(c, out, n, i)

\* EMA(12) of 30 rising closes: absent up to index 10, the mean 105.5 of
\* the first twelve at index 11, below the close from there on
C16_Witness ==
  /\ probe.fn = "_ema_series" /\ probe.n = 12
  /\ ind_feed.price = "rise" /\ Len(ind_candles.c) = 30
  /\ probe.out[11] = None
  /\ probe.out[12] = Num((211 * U) \div 2)
  /\ probe.out[30] # None
  /\ probe.out[30].v < ind_candles.c[30]
  /\ probe.out[30].v > probe.out[29].v

\* ------------------------------------------------------------------------
\* Properties of the rising series (one symbol's chain)
\* ------------------------------------------------------------------------
\* the scoring engine has run on the row of the symbol
ChainScored == pipe_pc \in {"finish", "done"}
ChainDebug == radar_output.radar_debug

\* strictly increasing closes and a flat volume above the liquidity floor
RisingFlat == ind_feed.price = "rise" /\ ind_feed.vol = "flat"

IndK == IndBars - 1
Snapshot == ind_called /\ ~ind_result.raised

\* C18: the MACD of the snapshot is EMA(12) - EMA(26) at the last bar and is
\* present exactly when both exist, that is for a last index k >= 25.
C18_MacdFromIndex25 ==
  Snapshot =>
    /\ IndK < 25 => Absent("macd")
    /\ IndK >= 25 =>
         /\ Present("macd")
         /\ ind_result.indicators.macd.v =
              _ema_at(ind_candles.c, 12, IndK).v - _ema_at(ind_candles.c, 26, IndK).v

\* C19: for n in {5, 20} the n-day momentum is close[k]/close[k-n] - 1 when
\* k >= n and close[k-n] is not 0 (-1 for a close[k] of 0), absent otherwise.
C19_Momentum ==
  Snapshot =>
    \A n \in {5, 20} :
      LET mom == ind_result.indicators[IF n = 5 THEN "mom5" ELSE "mom20"]
      IN IF IndK >= n /\ At(ind_candles.c, IndK - n) # 0
         THEN mom = Num(FDiv(At(ind_candles.c, IndK), At(ind_candles.c, IndK - n)) - U)
         ELSE mom = None

\* ------------------------------------------------------------------------
\* Properties of the risk colour
\* ------------------------------------------------------------------------
ColorCall == probe.fn = "_macro_color_from_atr"

\* a boundary as configured: the default when it is missing or no number,
\* a value of 1 or more divided by 100
Boundary(key, default) ==
  LET f == IF key \in DOMAIN ind_cfg THEN PyFloat(ind_cfg[key]) ELSE None
  IN  IF f = None THEN Num(default)
      ELSE IF f.t = "num" /\ f.v >= U THEN Num(f.v \div 100)
      ELSE f

\* the green boundary in use: 0.03 in place of one that is not positive
GreenInUse ==
  LET g == Boundary("RISK_ATR_GREEN_MAX", GreenMaxDefault)
  IN  IF FLessEq(g, Num(0)) THEN Num(GreenMaxDefault) ELSE g

\* the yellow boundary in use: the larger of 0.06 and green + 0.01 in place
\* of one that is not above the green boundary
YellowInUse ==
  LET y == Boundary("RISK_ATR_YELLOW_MAX", YellowMaxDefault)
  IN  IF FLessEq(y, GreenInUse)
      THEN PyMax(Num(YellowMaxDefault), FAdd(GreenInUse, Num(U \div 100)))
      ELSE y

NoColor(atr) == atr.t # "num" \/ atr.v < 0

ColorBy(atr, g, y) ==
  IF NoColor(atr) THEN <<>>
  ELSE IF FLessEq(atr, g) THEN S_GREEN
  ELSE IF FLessEq(atr, y) THEN S_YELLOW
  ELSE S_RED

Severity(color) ==
  IF color = S_GREEN THEN 1 ELSE IF color = S_YELLOW THEN 2 ELSE IF color = S_RED THEN 3 ELSE 0

\* no larger ATR% gets a less severe colour than the one returned
Monotone ==
  \A b \in AtrInputs :
    (~NoColor(probe.arg) /\ ~NoColor(b) /\ probe.arg.v <= b.v) =>
      Severity(probe.out.s) <= Severity(_macro_color_from_atr(b, ind_cfg))

BreakoutAsClaimed(close, ema20, s) ==
  /\ s \in {75 * U, 40 * U, 50 * U}
  /\ (close.t = "num" /\ ema20.t = "num" /\ close.v > ema20.v) => s = 75 * U
  /\ (close.t = "num" /\ ema20.t = "num" /\ close.v <= ema20.v) => s = 40 * U
  /\ (close = None \/ ema20 = None) => s = 50 * U

\* C21: the scored row's s_breakout is 75 when close and EMA20 are present
\* and close > EMA20, 40 when both are present and close <= EMA20, 50 when
\* either is absent, and never another value.
C21_Breakout ==
  (radar_called /\ Len(radar_candidates) = 1 /\ Len(Debug) = 1) =>
    BreakoutAsClaimed(_to_float(Get(radar_candidates[1], "close")),
                      _to_float(Get(radar_candidates[1], "ema20")),
                      Debug[1].s_breakout)

\* a close equal to EMA20 was scored 40
C21_Witness ==
  /\ radar_called
  /\ Len(radar_candidates) = 1
  /\ Len(Debug) = 1
  /\ Get(radar_candidates[1], "close") = Num(98 * U)
  /\ Get(radar_candidates[1], "ema20") = Num(98 * U)
  /\ Debug[1].s_breakout = 40 * U

\* ------------------------------------------------------------------------
\* Properties of the snapshot's date
\* ------------------------------------------------------------------------
\* the rows the download returned for the symbol of a candidate
BarsOf(r) == IF r.symbol \in DOMAIN fetch_result.data THEN fetch_result.data[r.symbol] ELSE <<>>

\* C22: the date of a symbol's snapshot is the date of the last bar of its
\* series, whatever the time-zone offset of the host.
C22_SnapshotDate ==
  \A i \in 1..Len(radar_candidates_struct) :
    ("error" \notin DOMAIN radar_candidates_struct[i] /\ BarsOf(radar_candidates_struct[i]) # <<>>) =>
      radar_candidates_struct[i].date =
        PyStr(BarsOf(radar_candidates_struct[i])[Len(BarsOf(radar_candidates_struct[i]))].date)

\* ------------------------------------------------------------------------
\* Properties of the shared run state
\* ------------------------------------------------------------------------
Returned(r) == requests[r].pc = "returned"

\* the run of r has made pipeline_state COMPLETED
Completed(r) == requests[r].pc \in {"end_time", "modules", "result", "respond"} \/ (Returned(r) /\ requests[r].response.code = 200)

\* the run of r has made pipeline_state RUNNING and not yet COMPLETED
Running(r) == requests[r].pc \in {"stages", "status"}

\* C23: once every request that arrived has returned, with success or with
\* the 500 response, pipeline_status is not RUNNING; and result_ready is true
\* only if some run reached COMPLETED.
C23_RunningIsLeft ==
  /\ ((\E r \in DOMAIN requests : Returned(r)) /\ (\A r \in DOMAIN requests : Returned(r) \/ requests[r].pc = "idle"))
       => pipeline_state.pipeline_status # "RUNNING"
  /\ result_state.result_ready => \E r \in DOMAIN requests : Completed(r)

\* pipeline_state holds what one run wrote: its start time, and its end time
\* and modules or the empty values the run started with
HeldByRun(r) ==
  /\ pipeline_state.start_time = requests[r].start_time
  /\ pipeline_state.end_time \in {None, requests[r].end_time}
  /\ pipeline_state.modules \in {<<>>, requests[r].modules}

\* C24: under every interleaving of two requests, pipeline_status is
\* COMPLETED only when no run is still in progress, and start_time, end_time
\* and modules belong to the same run.
C24_ConsistentWithOneRun ==
  /\ pipeline_state.pipeline_status = "COMPLETED" => \A r \in DOMAIN requests : ~Running(r)
  /\ pipeline_state # PipelineStateInit => \E r \in DOMAIN requests : requests[r].pc # "idle" /\ HeldByRun(r)

\* ------------------------------------------------------------------------
\* Properties of the two modes of run_indicator_engine
\* ------------------------------------------------------------------------
\* the symbols the supplied map has bar data for
SymbolsWithBars(cbs) == {sym \in DOMAIN cbs.d : DOMAIN cbs.d[sym] # {}}

\* C26: whenever candles_by_symbol is supplied, also as an empty map, every
\* candidate is of a symbol that has bar data in it, and none is a fabricated
\* row.
C26_DummyOnlyWithoutMap ==
  (probe.fn = "run_indicator_engine" /\ probe.arg.candles_by_symbol # None) =>
    \A i \in 1..Len(probe.out.radar_candidates) :
      /\ probe.out.radar_candidates[i].symbol \in SymbolsWithBars(probe.arg.candles_by_symbol)
      /\ probe.out.radar_candidates[i] \notin Range(dummy_candidates(probe.arg.symbols, utc_today))

\* ------------------------------------------------------------------------
\* Properties of the two output lists
\* ------------------------------------------------------------------------
SamePosition(pick, dbg) ==
  /\ pick.symbol = dbg.symbol
  /\ pick.base_score = dbg.base_score
  /\ pick.adj_score = dbg.adj_score
  /\ pick.volume = dbg.volume
  /\ pick.atr_pct = dbg.atr_pct

\* C25: with the sector cap disabled, picks and candidates_debug list the
\* same symbols in the same order, rows of equal adj_score included, with
\* the same base_score, adj_score, volume and atr_pct at every position, and
\* the summary counts are the lengths of the two lists.
C25_PicksMirrorDebug ==
  (radar_called /\ ~SectorCapOn) =>
    /\ Len(Picks) = Len(Debug)
    /\ \A i \in DOMAIN Debug : SamePosition(Picks[i], Debug[i])
    /\ radar_result.summary.candidates = Len(Debug)
    /\ radar_result.summary.picked = Len(Picks)

\* two symbols with the same adj_score head both lists in the same order
C25_Witness ==
  /\ radar_called
  /\ ~SectorCapOn
  /\ Len(Debug) >= 2
  /\ Debug[1].adj_score = Debug[2].adj_score
  /\ Debug[1].symbol # Debug[2].symbol
  /\ Picks[1].symbol = Debug[1].symbol
  /\ Picks[2].symbol = Debug[2].symbol
  /\ radar_result.summary.picked >= 2

====
